---- MODULE Spec2Model ----
(***************************************************************************)
(* Manual-edit reconciliation engine of ShiftORTools (src/frontend/app.js):*)
(* the per-month schedule cache, the undo log, the assign dialog, the      *)
(* calendar drop chooser, the tabular drop handler and the highlight       *)
(* session, together with the backend boundary they talk to.               *)
(*                                                                         *)
(* Every await of a backend call splits a handler in two actions: the one  *)
(* that issues the request (a record added to tasks) and the one that      *)
(* resumes the handler once the backend has answered.  The backend answers *)
(* requests one at a time, in any order, and answers reach the client in   *)
(* any order.  The residents list is the same whenever it is read, so a    *)
(* handler waiting for /api/residents resumes in one step whose input is   *)
(* whether the fetch succeeded.  Two awaits are folded into the step that  *)
(* uses their answer, which is then an input of that step: the is_holiday  *)
(* lookup, and the                                                         *)
(* fetchSchedule that openAssignModal and the calendar drop handler issue  *)
(* when the displayed month has no cache entry.                            *)
(*                                                                         *)
(* The user acts on the topmost layer only: an open assign dialog or drop  *)
(* chooser covers the calendar modal, and the calendar modal (a backdrop   *)
(* that closes on a click outside its inner area, app.js:454) covers the   *)
(* page with the preview table.  The Escape key closes the calendar from   *)
(* any layer.  While a drag gesture is in progress the only user events    *)
(* are its drop and its end.  Backend answers arrive at any time.          *)
(***************************************************************************)
EXTENDS Integers, Sequences, FiniteSets, TLC

VARIABLES
  currentCfg,        \* app.js:12  hospital name -> (date or weekday key -> capacity)
  editingHospital,   \* app.js:13
  editingMonthKey,   \* app.js:14-15  editingYear/editingMonth as a YYYY-MM key
  scheduleCache,     \* app.js:16  month -> schedule | error sentinel | absent
  residentHighlight, \* app.js:17
  residentsCache,    \* app.js:18  month -> residents list loaded?
  currentDragMeta,   \* app.js:19
  lastChanges,       \* app.js:20  the undo log
  uiMax,             \* value of the #max-assignments input
  calHidden,         \* calendarModal has class 'hidden'
  calGrid,           \* cells built by the last renderCalendar
  previewTable,      \* table built by the last renderScheduleTable
  dataTransfer,      \* drag payload of the calendar-label gesture in progress
  assignModal,       \* the open assign dialog (closure of openAssignModal)
  chooser,           \* the open drop chooser (closure of the calendar drop handler)
  tasks,             \* suspended handlers, each waiting for one backend answer
  issued,            \* forward mutation requests (dialog, chooser) issued so far
  server,            \* backend: month -> authoritative schedule
  netSlots,          \* requests the browser session keeps outstanding at once
  lastSelected,      \* the resident the user selected last (label or summary row)
  lastEvt            \* the handler step taken last and what it reported

vars == <<currentCfg, editingHospital, editingMonthKey, scheduleCache,
          residentHighlight, residentsCache, currentDragMeta, lastChanges,
          uiMax, calHidden, calGrid, previewTable, dataTransfer, assignModal,
          chooser, tasks, issued, server, netSlots, lastSelected, lastEvt>>

(***************************************************************************)
(* Bounds and the finite universe                                          *)
(***************************************************************************)
\* forward mutation requests issued in one behaviour; an undo takes an entry
\* a forward mutation pushed, so the undo requests are bounded with them
MaxMutations == 2
\* handlers suspended at the same time
MaxInFlight == 1
\* handlers suspended at the same time in the sessions that race requests
MaxRacing == 2
\* largest capacity a configuration entry holds in the capacity engine's
\* input space
MaxCapacity == 2

Months == {"2024-06", "2024-07"}
Dates == {"2024-06-01", "2024-06-04", "2024-07-01"}
Residents == {"r1", "r2"}
\* the university hospital ('大学病院' in the source) and an ordinary one
UnivHospital == "Univ"
HospitalSeq == <<"Univ", "General">>
Hospitals == {HospitalSeq[i] : i \in 1..Len(HospitalSeq)}
\* the month `new Date()` falls in
NowMonth == "2024-06"

\* d.slice(0,7)
MonthOf(d) == IF d = "2024-07-01" THEN "2024-07" ELSE "2024-06"
DatesOf(m) == {d \in Dates : MonthOf(d) = m}
\* new Date(d).getDay(): 0 = Sunday .. 6 = Saturday
getDay(d) ==
  CASE d = "2024-06-01" -> 6
    [] d = "2024-06-02" -> 0
    [] d = "2024-06-03" -> 1
    [] d = "2024-06-04" -> 2
    [] d = "2024-06-05" -> 3
    [] d = "2024-06-06" -> 4
    [] d = "2024-06-07" -> 5
    [] d = "2024-06-11" -> 2
    [] d = "2024-07-01" -> 1
\* String(wk)
WeekdayKeys == <<"0", "1", "2", "3", "4", "5", "6">>
String(wk) == WeekdayKeys[wk + 1]

None == [status |-> "none"]

(***************************************************************************)
(* Schedules                                                               *)
(***************************************************************************)
Absent == [status |-> "absent"]
ErrorSentinel == [status |-> "error"]
NoAssignments == [d \in Dates |-> [h \in Hospitals |-> {}]]

\* variant of Cached that takes the error sentinel for no entry
CachedSchedule(s) == s.status = "ok"

\* scheduleCache[month] is truthy
Cached(s) == s # Absent
\* sched.hospitals when it is an array, else []
HospitalsOf(s) == IF s.status = "ok" THEN s.hospitals ELSE <<>>
\* (sched.assignments && sched.assignments[d] && sched.assignments[d][h]) || []
AssignedArr(s, d, h) ==
  IF s.status = "ok" /\ d \in DOMAIN s.assignments THEN s.assignments[d][h] ELSE {}
\* hospitals of sched.assignments[d] that list the resident, in key order
HospitalsHolding(s, d, r) ==
  SelectSeq(HospitalSeq, LAMBDA h : r \in AssignedArr(s, d, h))
\* Number(curCounts[residentName] || 0)
CountOf(s, r) == IF s.status = "ok" THEN s.per_res_counts[r] ELSE 0

SeqToSet(q) == {q[i] : i \in 1..Len(q)}

(***************************************************************************)
(* Capacity arithmetic (openAssignModal, the calendar drop handler, the    *)
(* tabular drop handler and highlightPreviewTargets repeat the same code)  *)
(***************************************************************************)
EmptyCfg == [k \in {} |-> 0]
\* currentCfg[hosp] || {}
CfgOf(cfg, hosp) == IF hosp \in DOMAIN cfg THEN cfg[hosp] ELSE EmptyCfg
\* variant of weekdayOf that keeps the Sunday-first index of getDay()
weekdayOfSundayFirst(jsDay) == jsDay

\* (jsDay + 6) % 7: 0 = Monday .. 6 = Sunday, as the backend counts
weekdayOf(jsDay) == (jsDay + 6) % 7
\* variant of capacityOf that falls back to the weekday entry when the
\* date-specific entry is 0 (cfg[d] || cfg[wk])
capacityOfFalsyFallsBack(cfg, hosp, d) ==
  LET c == CfgOf(cfg, hosp)
      wk == String((getDay(d) + 6) % 7)
  IN  IF d \in DOMAIN c /\ c[d] # 0 THEN c[d]
      ELSE IF wk \in DOMAIN c THEN c[wk]
      ELSE 0

\* date-specific entry, else weekday entry, else 0
capacityOf(cfg, hosp, d) ==
  LET c == CfgOf(cfg, hosp)
      wk == String(weekdayOf(getDay(d)))
  IN  IF d \in DOMAIN c THEN c[d]
      ELSE IF wk \in DOMAIN c THEN c[wk]
      ELSE 0
isWeekend(d) == getDay(d) = 0 \/ getDay(d) = 6
WeekendBonus == 4
\* variant of remaining that grants the bonus on weekends only
remainingWeekendOnly(s, cfg, hosp, d, isHoliday) ==
  LET base == capacityOf(cfg, hosp, d)
      cap == IF hosp = UnivHospital /\ isWeekend(d)
             THEN base + WeekendBonus ELSE base
  IN  cap - Cardinality(AssignedArr(s, d, hosp))

\* capacity (+4 for the university hospital on a weekend or holiday) - assigned
remaining(s, cfg, hosp, d, isHoliday) ==
  LET base == capacityOf(cfg, hosp, d)
      cap == IF hosp = UnivHospital /\ (isWeekend(d) \/ isHoliday)
             THEN base + WeekendBonus ELSE base
  IN  cap - Cardinality(AssignedArr(s, d, hosp))

\* variant of HospitalList that prefers the configured names
HospitalListConfiguredFirst(s, cfg) ==
  IF DOMAIN cfg # {} THEN SelectSeq(HospitalSeq, LAMBDA h : h \in DOMAIN cfg)
  ELSE HospitalsOf(s)

\* hospitals = sched.hospitals, or the configured names when that is empty
HospitalList(s, cfg) ==
  IF Len(HospitalsOf(s)) > 0 THEN HospitalsOf(s)
  ELSE SelectSeq(HospitalSeq \o <<"null">>, LAMBDA h : h \in DOMAIN cfg)

(***************************************************************************)
(* Backend boundary (spec.md section 6; the server code is not in src/)    *)
(***************************************************************************)
\* ng_dates of every resident, as /api/residents reports them
NgDates == [r \in Residents |-> IF r = "r2" THEN {"2024-06-01"} ELSE {}]

DatesSeq(m) ==
  IF m = "2024-06" THEN <<"2024-06-01", "2024-06-04">> ELSE <<"2024-07-01">>

PerResCounts(a, m) ==
  [r \in Residents |->
     Cardinality({p \in DatesOf(m) \X Hospitals : r \in a[p[1]][p[2]]})]

\* the full recomputed schedule of a month
MkSchedule(m, a) ==
  [status |-> "ok", dates |-> DatesSeq(m), hospitals |-> HospitalSeq,
   assignments |-> a, per_res_counts |-> PerResCounts(a, m)]

\* assign: the resident joins (d, h), and stays where it is if already there
ApplyAssign(a, d, r, h) == [a EXCEPT ![d][h] = @ \cup {r}]
\* unassign: the resident leaves every hospital slot of d
ApplyUnassign(a, d, r) ==
  [a EXCEPT ![d] = [hh \in Hospitals |-> a[d][hh] \ {r}]]
\* move: the resident leaves (fd, fh) and joins (td, th)
ApplyMove(a, r, fd, fh, td, th) ==
  LET out == [a EXCEPT ![fd][fh] = @ \ {r}]
  IN  [out EXCEPT ![td][th] = @ \cup {r}]

\* variant of MustReject that also refuses to unassign a resident who holds
\* no hospital on the date
MustRejectUnheldUnassign(t) ==
  CASE t.api = "manual_assign" ->
         \/ MonthOf(t.req.date) # t.req.month
         \/ t.req.date \in NgDates[t.req.resident]
    [] t.api = "manual_move" ->
         \/ MonthOf(t.req.to_date) # t.req.month
         \/ MonthOf(t.req.from_date) # t.req.month
         \/ t.req.to_date \in NgDates[t.req.resident]
         \/ t.req.resident \notin
              server[t.req.month].assignments[t.req.from_date][t.req.from_hospital]
    [] t.api = "manual_unassign" ->
         HospitalsHolding(server[t.req.month], t.req.date, t.req.resident) = <<>>
    [] OTHER -> FALSE

\* requests the backend refuses whatever its capacity table says
MustReject(t) ==
  CASE t.api = "manual_assign" ->
         \/ MonthOf(t.req.date) # t.req.month
         \/ t.req.date \in NgDates[t.req.resident]
    [] t.api = "manual_move" ->
         \/ MonthOf(t.req.to_date) # t.req.month
         \/ MonthOf(t.req.from_date) # t.req.month
         \/ t.req.to_date \in NgDates[t.req.resident]
         \/ t.req.resident \notin
              server[t.req.month].assignments[t.req.from_date][t.req.from_hospital]
    [] OTHER -> FALSE

\* the assignments a successful request leaves on the backend
Applied(t) ==
  LET a == server[t.req.month].assignments
  IN  CASE t.api = "manual_assign" ->
             ApplyAssign(a, t.req.date, t.req.resident, t.req.hospital)
        [] t.api = "manual_unassign" ->
             ApplyUnassign(a, t.req.date, t.req.resident)
        [] t.api = "manual_move" ->
             ApplyMove(a, t.req.resident, t.req.from_date, t.req.from_hospital,
                       t.req.to_date, t.req.to_hospital)
        [] OTHER -> a

(***************************************************************************)
(* Initial state                                                           *)
(***************************************************************************)
\* hospital configurations a session may load
CfgChoices ==
  { [h \in Hospitals |->
       IF h = UnivHospital
       THEN ("1" :> 1) @@ ("0" :> 1)
       ELSE ("1" :> 1) @@ ("2024-06-01" :> 1) @@ ("5" :> 3) @@ ("0" :> 1)] }

\* the roster the solver produced
InitAssignments(m) ==
  IF m = "2024-06"
  THEN [NoAssignments EXCEPT !["2024-06-01"]["General"] = {"r1"},
                             !["2024-06-04"]["General"] = {"r2"}]
  ELSE [NoAssignments EXCEPT !["2024-07-01"]["General"] = {"r1"}]

Evt(h, out) == [h |-> h, out |-> out]

Init ==
  /\ currentCfg \in CfgChoices
  /\ editingHospital = "null"
  /\ editingMonthKey = "null"
  /\ scheduleCache = [m \in Months |-> Absent]
  /\ residentHighlight = None
  /\ residentsCache = [m \in Months |-> FALSE]
  /\ currentDragMeta = None
  /\ lastChanges = <<>>
  /\ uiMax \in {1, 2}
  /\ calHidden = TRUE
  /\ calGrid = None
  /\ previewTable = None
  /\ dataTransfer = None
  /\ assignModal = None
  /\ chooser = None
  /\ tasks = {}
  /\ issued = 0
  /\ server = [m \in Months |-> MkSchedule(m, InitAssignments(m))]
  /\ netSlots = MaxInFlight
  /\ lastSelected = "null"
  /\ lastEvt = Evt("init", "")

(***************************************************************************)
(* Rendering                                                               *)
(***************************************************************************)
\* renderCalendar: the day cells of the displayed month; with a highlight of
\* that month, the NG days and one draggable label per assigned day
renderCalendar(emk, hl, cache) ==
  IF emk \notin Months THEN None
  ELSE
    LET on == hl # None /\ hl.month = emk
        ng == IF on THEN {d \in DatesOf(emk) : d \in hl.ng_dates} ELSE {}
    IN  [month |-> emk,
         ngDay |-> ng,
         labels |-> [d \in Dates |->
            IF on /\ d \in DatesOf(emk) /\ d \notin ng
            THEN HospitalsHolding(cache[emk], d, hl.name)
            ELSE <<>>]]

\* renderScheduleTable: nothing without dates and hospitals
renderScheduleTable(out) ==
  IF out.status # "ok" \/ Len(out.dates) = 0 THEN None
  ELSE [month |-> MonthOf(out.dates[1]), out |-> out, targets |-> {}]

(***************************************************************************)
(* Suspended handlers                                                      *)
(***************************************************************************)
TaskIds == 1..netSlots
FreeIds == TaskIds \ {t.id : t \in tasks}
CanSuspend == FreeIds # {}
FreshId == CHOOSE i \in FreeIds : \A j \in FreeIds : i <= j

\* a handler suspended on fetch(api, req)
NewTask(api, handler, req, ctx) ==
  [id |-> FreshId, api |-> api, handler |-> handler, req |-> req,
   ctx |-> ctx, status |-> "sent", result |-> None]

IsMutation(api) == api \in {"manual_assign", "manual_unassign", "manual_move"}

\* dialogs (assign dialog, drop chooser) a closure may still refer to
DlgIds == 1..(netSlots + 3)
UsedDlgIds ==
  {t.ctx.dlg : t \in {u \in tasks : u.handler \in {"assignBtn", "deleteBtn", "chooserBtn"}}}
    \cup (IF assignModal # None THEN {assignModal.id} ELSE {})
    \cup (IF chooser # None THEN {chooser.id} ELSE {})
FreshDlg == CHOOSE i \in DlgIds \ UsedDlgIds : \A j \in DlgIds \ UsedDlgIds : i <= j

\* what the user can reach
NoDialog == assignModal = None /\ chooser = None
NoDrag == currentDragMeta = None /\ dataTransfer = None
OnPage == calHidden /\ NoDialog
OnCalendar == ~calHidden /\ NoDialog

(***************************************************************************)
(* Backend steps                                                           *)
(***************************************************************************)
Answer(t, status, result) ==
  tasks' = (tasks \ {t}) \cup {[t EXCEPT !.status = status, !.result = result]}

\* the backend carries a request out and answers with success
BackendAccept(t) ==
  /\ t \in tasks /\ t.status = "sent"
  /\ t.api # "residents"
  /\ ~MustReject(t)
  /\ IF IsMutation(t.api)
     THEN LET sched == MkSchedule(t.req.month, Applied(t))
          IN  /\ server' = [server EXCEPT ![t.req.month] = sched]
              /\ Answer(t, "ok", sched)
     ELSE /\ UNCHANGED server
          /\ Answer(t, "ok", server[t.req.month])
  /\ lastEvt' = Evt("backend", "ok")
  /\ UNCHANGED <<currentCfg, editingHospital, editingMonthKey, scheduleCache,
                 residentHighlight, residentsCache, currentDragMeta, lastChanges,
                 uiMax, calHidden, calGrid, previewTable, dataTransfer,
                 assignModal, chooser, issued,
                 netSlots, lastSelected>>

\* the backend answers with a non-success status
BackendReject(t) ==
  /\ t \in tasks /\ t.status = "sent"
  /\ t.api # "residents"
  /\ Answer(t, "rejected", None)
  /\ lastEvt' = Evt("backend", "rejected")
  /\ UNCHANGED <<currentCfg, editingHospital, editingMonthKey, scheduleCache,
                 residentHighlight, residentsCache, currentDragMeta, lastChanges,
                 uiMax, calHidden, calGrid, previewTable, dataTransfer,
                 assignModal, chooser, issued, server,
                 netSlots, lastSelected>>

\* fetch throws: the request or its answer is lost (the handlers of the
\* read-only endpoints treat a thrown fetch like a non-success answer)
NetworkError(t) ==
  /\ t \in tasks /\ t.status \in {"sent", "ok"}
  /\ IsMutation(t.api)
  /\ Answer(t, "error", None)
  /\ lastEvt' = Evt("backend", "error")
  /\ UNCHANGED <<currentCfg, editingHospital, editingMonthKey, scheduleCache,
                 residentHighlight, residentsCache, currentDragMeta, lastChanges,
                 uiMax, calHidden, calGrid, previewTable, dataTransfer,
                 assignModal, chooser, issued, server,
                 netSlots, lastSelected>>

(***************************************************************************)
(* Solver run and the calendar modal                                       *)
(***************************************************************************)
\* runSolver: the roster of a month is rendered as the preview table
runSolver(m) ==
  /\ OnPage /\ NoDrag
  /\ previewTable' = renderScheduleTable(server[m])
  /\ lastEvt' = Evt("runSolver", "done")
  /\ UNCHANGED <<currentCfg, editingHospital, editingMonthKey, scheduleCache,
                 residentHighlight, residentsCache, currentDragMeta, lastChanges,
                 uiMax, calHidden, calGrid, dataTransfer, assignModal, chooser,
                 tasks, issued, server,
                 netSlots, lastSelected>>

\* fetchSchedule(month) as called by a handler that then renders the calendar
\* (show = the handler also unhides the modal): the cached entry is returned
\* at once, otherwise the handler suspends on /api/schedule
fetchScheduleThenRender(month, handler, show, emk, hl) ==
  IF Cached(scheduleCache[month])
  THEN /\ calGrid' = renderCalendar(emk, hl, scheduleCache)
       /\ calHidden' = IF show THEN FALSE ELSE calHidden
       /\ UNCHANGED tasks
  ELSE /\ CanSuspend
       /\ tasks' = tasks \cup
            {NewTask("schedule", handler, [month |-> month], [show |-> show])}
       /\ UNCHANGED <<calGrid, calHidden>>

\* fetchSchedule resumes: the answer (or the error sentinel) is stored under
\* the month, then the caller renders the calendar
fetchScheduleResume(t) ==
  /\ t \in tasks /\ t.status # "sent"
  /\ t.handler \in {"openCalendar", "calNav", "showResidentCalendar2"}
  /\ scheduleCache' = [scheduleCache EXCEPT ![t.req.month] =
        IF t.status = "ok" THEN t.result ELSE ErrorSentinel]
  /\ calGrid' = renderCalendar(editingMonthKey, residentHighlight, scheduleCache')
  /\ calHidden' = IF t.ctx.show THEN FALSE ELSE calHidden
  /\ tasks' = tasks \ {t}
  /\ lastEvt' = Evt("fetchSchedule", t.status)
  /\ UNCHANGED <<currentCfg, editingHospital, editingMonthKey, residentHighlight,
                 residentsCache, currentDragMeta, lastChanges, uiMax, previewTable,
                 dataTransfer, assignModal, chooser, issued, server,
                 netSlots, lastSelected>>

\* openCalendar(hospital), from a row of the configuration table
openCalendar(h) ==
  /\ OnPage /\ NoDrag
  /\ editingHospital' = h
  /\ currentCfg' = IF h \in DOMAIN currentCfg THEN currentCfg
                   ELSE currentCfg @@ (h :> EmptyCfg)
  /\ editingMonthKey' = NowMonth
  /\ fetchScheduleThenRender(NowMonth, "openCalendar", TRUE, NowMonth, residentHighlight)
  /\ lastEvt' = Evt("openCalendar", h)
  /\ UNCHANGED <<scheduleCache, residentHighlight, residentsCache, currentDragMeta,
                 lastChanges, uiMax, previewTable, dataTransfer, assignModal,
                 chooser, issued, server,
                 netSlots, lastSelected>>

\* closeCalendar
closeCalendar ==
  /\ ~calHidden /\ NoDrag
  /\ calHidden' = TRUE
  /\ editingHospital' = "null"
  /\ residentHighlight' = None
  /\ lastEvt' = Evt("closeCalendar", "")
  /\ UNCHANGED <<currentCfg, editingMonthKey, scheduleCache, residentsCache,
                 currentDragMeta, lastChanges, uiMax, calGrid, previewTable,
                 dataTransfer, assignModal, chooser, tasks, issued, server,
                 netSlots, lastSelected>>

\* parseInt of a day cell's label
DayOf(d) == IF d = "2024-06-04" THEN 4 ELSE 1
\* `${editingYear}-${editingMonth}-${d}`, zero padded
DateStr(m, day) ==
  CASE m = "2024-06" /\ day = 1 -> "2024-06-01"
    [] m = "2024-06" /\ day = 4 -> "2024-06-04"
    [] m = "2024-07" /\ day = 1 -> "2024-07-01"
    [] OTHER -> "2024-07-04"

\* the day inputs are disabled in the grid of a highlight's month
InputsDisabled ==
  residentHighlight # None /\ residentHighlight.month = calGrid.month

\* the save button of the calendar modal: every day cell's input is written
\* to currentCfg[editingHospital] under the date of the displayed month, and
\* the modal closes.  editingHospital null is the property key "null".  vals
\* are the inputs as the user left them; a disabled input still holds the
\* value it was rendered with, the entry of that date or 0.
calSave(vals) ==
  /\ OnCalendar /\ NoDrag
  /\ calGrid # None /\ editingMonthKey \in Months
  /\ LET key == editingHospital
         old == CfgOf(currentCfg, key)
         cells == DatesOf(calGrid.month)
         shown(d) == IF d \in DOMAIN old THEN old[d] ELSE 0
         val(d) == IF InputsDisabled THEN shown(d) ELSE vals[d]
         cellOf(k) == CHOOSE d \in cells : DateStr(editingMonthKey, DayOf(d)) = k
         written == [k \in {DateStr(editingMonthKey, DayOf(d)) : d \in cells}
                       |-> val(cellOf(k))]
     IN  currentCfg' = [h \in DOMAIN currentCfg \cup {key} |->
                          IF h = key THEN written @@ old ELSE currentCfg[h]]
  /\ calHidden' = TRUE
  /\ editingHospital' = "null"
  /\ residentHighlight' = None
  /\ lastEvt' = Evt("calSave", editingHospital)
  /\ UNCHANGED <<editingMonthKey, scheduleCache, residentsCache,
                 currentDragMeta, lastChanges, uiMax, calGrid, previewTable,
                 dataTransfer, assignModal, chooser, tasks, issued, server,
                 netSlots, lastSelected>>

\* calPrev / calNext: the displayed month moves, its schedule is fetched and
\* the calendar is rendered again
calNav(m) ==
  /\ OnCalendar /\ NoDrag
  /\ editingMonthKey \in Months /\ m \in Months /\ m # editingMonthKey
  /\ editingMonthKey' = m
  /\ fetchScheduleThenRender(m, "calNav", FALSE, m, residentHighlight)
  /\ lastEvt' = Evt("calNav", m)
  /\ UNCHANGED <<currentCfg, editingHospital, scheduleCache, residentHighlight,
                 residentsCache, currentDragMeta, lastChanges, uiMax, previewTable,
                 dataTransfer, assignModal, chooser, issued, server,
                 netSlots, lastSelected>>

\* showResidentCalendar(name, month), from the summary below the table:
\* the residents of the month are fetched first
showResidentCalendar(name) ==
  /\ OnPage /\ NoDrag
  /\ previewTable # None
  /\ CanSuspend
  /\ tasks' = tasks \cup
       {NewTask("residents", "showResidentCalendar",
                [month |-> previewTable.month], [name |-> name])}
  /\ lastEvt' = Evt("showResidentCalendar", name)
  /\ UNCHANGED <<currentCfg, editingHospital, editingMonthKey, scheduleCache,
                 residentHighlight, residentsCache, currentDragMeta, lastChanges,
                 uiMax, calHidden, calGrid, previewTable, dataTransfer,
                 assignModal, chooser, issued, server,
                 netSlots>>
  /\ lastSelected' = name

\* showResidentCalendar resumes: the highlight is set, the calendar turns to
\* the month and its schedule is fetched; a failed fetch only reports
showResidentCalendarResume(t, fetchOk) ==
  /\ t \in tasks /\ t.handler = "showResidentCalendar"
  /\ IF fetchOk
     THEN LET hl == [name |-> t.ctx.name, month |-> t.req.month,
                     ng_dates |-> NgDates[t.ctx.name]]
          IN  /\ residentHighlight' = hl
              /\ editingMonthKey' = t.req.month
              /\ editingHospital' = "null"
              /\ IF Cached(scheduleCache[t.req.month])
                 THEN /\ calGrid' = renderCalendar(t.req.month, hl, scheduleCache)
                      /\ calHidden' = FALSE
                      /\ tasks' = tasks \ {t}
                 ELSE /\ tasks' = (tasks \ {t}) \cup
                           {[t EXCEPT !.api = "schedule", !.status = "sent",
                                      !.handler = "showResidentCalendar2",
                                      !.ctx = [show |-> TRUE]]}
                      /\ UNCHANGED <<calGrid, calHidden>>
              /\ lastEvt' = Evt("showResidentCalendar", "found")
     ELSE /\ tasks' = tasks \ {t}
          /\ lastEvt' = Evt("showResidentCalendar", "fetchFailed")
          /\ UNCHANGED <<residentHighlight, editingMonthKey, editingHospital,
                         calGrid, calHidden>>
  /\ UNCHANGED <<currentCfg, scheduleCache, residentsCache, currentDragMeta,
                 lastChanges, uiMax, previewTable, dataTransfer, assignModal,
                 chooser, issued, server,
                 netSlots, lastSelected>>

(***************************************************************************)
(* Highlight session (preview table label click)                           *)
(***************************************************************************)
\* residents shown as labels in the preview table
TableResidents ==
  IF previewTable = None THEN {}
  ELSE {r \in Residents : \E d \in SeqToSet(previewTable.out.dates), h \in Hospitals :
          r \in AssignedArr(previewTable.out, d, h)}

\* highlightPreviewTargets: the cells of the preview table that get the
\* class preview-drop-target; sched is scheduleCache[monthKey] || {}, the
\* bonus is that of the weekend alone (isWeekend || false)
highlightPreviewTargets(table, sched, cfg, ngDates) ==
  IF table = None THEN None
  ELSE [table EXCEPT !.targets =
          {c \in SeqToSet(table.out.dates) \X SeqToSet(table.out.hospitals) :
             /\ c[1] \notin ngDates
             /\ remaining(sched, cfg, c[2], c[1], FALSE) > 0}]

\* label click: fetchResidents(monthKey), then the clicked resident becomes
\* the highlight; without the residents list its ng_dates are [].  Then
\* highlightPreviewTargets marks the table, after its own fetchResidents.
labelClick(name) ==
  /\ OnPage /\ NoDrag
  /\ name \in TableResidents
  /\ IF residentsCache[previewTable.month]
     THEN /\ residentHighlight' = [name |-> name, month |-> previewTable.month,
                                   ng_dates |-> NgDates[name]]
          /\ previewTable' =
               highlightPreviewTargets(previewTable,
                 scheduleCache[previewTable.month], currentCfg, NgDates[name])
          /\ lastEvt' = Evt("labelClick", "selected")
          /\ UNCHANGED tasks
     ELSE /\ CanSuspend
          /\ tasks' = tasks \cup
               {NewTask("residents", "labelClick",
                        [month |-> previewTable.month], [name |-> name])}
          /\ lastEvt' = Evt("labelClick", "fetching")
          /\ UNCHANGED <<residentHighlight, previewTable>>
  /\ UNCHANGED <<currentCfg, editingHospital, editingMonthKey, scheduleCache,
                 residentsCache, currentDragMeta, lastChanges, uiMax, calHidden,
                 calGrid, dataTransfer, assignModal, chooser,
                 issued, server,
                 netSlots>>
  /\ lastSelected' = name

\* the label click resumes after fetchResidents (fetchOk); when that call
\* returned null, the one inside highlightPreviewTargets asks again
labelClickResume(t, fetchOk) ==
  /\ t \in tasks /\ t.handler = "labelClick"
  /\ residentHighlight' =
       [name |-> t.ctx.name, month |-> t.req.month,
        ng_dates |-> IF fetchOk THEN NgDates[t.ctx.name] ELSE {}]
  /\ \E refetchOk \in (IF fetchOk \/ residentsCache[t.req.month]
                       THEN {TRUE} ELSE BOOLEAN) :
       /\ residentsCache' = IF refetchOk
                            THEN [residentsCache EXCEPT ![t.req.month] = TRUE]
                            ELSE residentsCache
       /\ previewTable' =
            highlightPreviewTargets(previewTable, scheduleCache[t.req.month],
              currentCfg, IF refetchOk THEN NgDates[t.ctx.name] ELSE {})
  /\ tasks' = tasks \ {t}
  /\ lastEvt' = Evt("labelClick", IF fetchOk THEN "selected" ELSE "selectedNoList")
  /\ UNCHANGED <<currentCfg, editingHospital, editingMonthKey, scheduleCache,
                 currentDragMeta, lastChanges, uiMax, calHidden, calGrid,
                 dataTransfer, assignModal, chooser, issued, server,
                 netSlots, lastSelected>>

(***************************************************************************)
(* Assign dialog                                                           *)
(***************************************************************************)
\* fetchSchedule(month) awaited inside a handler: the cache as it is when the
\* handler goes on (fetchOk = /api/schedule answered with success)
fetchSchedule(month, fetchOk) ==
  IF Cached(scheduleCache[month]) THEN scheduleCache
  ELSE [scheduleCache EXCEPT ![month] =
          IF fetchOk THEN server[month] ELSE ErrorSentinel]

\* candidates of openAssignModal: hospitals with remaining > 0
\* variant of cfgAfterLookup that stores the default entry it read
cfgAfterLookupStored(cfg, hospitals) ==
  [h \in DOMAIN cfg \cup SeqToSet(hospitals) |-> CfgOf(cfg, h)]

\* const cfg = currentCfg[hosp] || {} for every hospital of the loop: the
\* default is a local value, currentCfg keeps the keys it had
cfgAfterLookup(cfg, hospitals) == cfg

AssignCandidates(sched, cfg, d, isHoliday) ==
  SelectSeq(HospitalList(sched, cfg),
            LAMBDA h : remaining(sched, cfg, h, d, isHoliday) > 0)

\* openAssignModal once the schedule of the month is cached: the dialog, or
\* the message that replaces it
openAssignModalBody(d, r, m, sched, isHoliday) ==
  LET cands == AssignCandidates(sched, currentCfg, d, isHoliday)
      held == HospitalsHolding(sched, d, r)
  IN  IF Len(HospitalList(sched, currentCfg)) = 0
      THEN /\ lastEvt' = Evt("openAssignModal", "noHospitalList")
           /\ UNCHANGED assignModal
      ELSE IF Len(cands) = 0 /\ Len(held) = 0
      THEN /\ lastEvt' = Evt("openAssignModal", "noSlots")
           /\ UNCHANGED assignModal
      ELSE /\ assignModal' = [id |-> FreshDlg, date |-> d, resident |-> r,
                              month |-> m, candidates |-> cands,
                              assignedHospitals |-> held]
           /\ lastEvt' = Evt("openAssignModal", "shown")

\* variant of cellClickGate without the NG-day return
cellClickGateNoNgCheck(hl, month, d) ==
  IF hl = None THEN "noHighlight"
  ELSE IF hl.month # month THEN "monthMismatch"
  ELSE "open"

\* the three returns of the cell click handler before openAssignModal
cellClickGate(hl, month, d) ==
  IF hl = None THEN "noHighlight"
  ELSE IF hl.month # month THEN "monthMismatch"
  ELSE IF d \in hl.ng_dates THEN "ngDay"
  ELSE "open"

\* click on a day cell of the calendar
cellClick(d, isHoliday, fetchOk) ==
  /\ OnCalendar /\ NoDrag
  /\ calGrid # None /\ d \in DatesOf(calGrid.month)
  /\ LET gate == cellClickGate(residentHighlight, calGrid.month, d)
     IN  IF gate # "open"
         THEN /\ lastEvt' = Evt("cellClick", gate)
              /\ UNCHANGED <<assignModal, scheduleCache, currentCfg>>
         ELSE /\ scheduleCache' = fetchSchedule(calGrid.month, fetchOk)
              /\ openAssignModalBody(d, residentHighlight.name, calGrid.month,
                                     scheduleCache'[calGrid.month], isHoliday)
              /\ currentCfg' =
                   cfgAfterLookup(currentCfg,
                     HospitalList(scheduleCache'[calGrid.month], currentCfg))
  /\ UNCHANGED <<editingHospital, editingMonthKey, residentHighlight,
                 residentsCache, currentDragMeta, lastChanges, uiMax, calHidden,
                 calGrid, previewTable, dataTransfer, chooser, tasks, issued,
                 server,
                 netSlots, lastSelected>>

\* document.body.removeChild(overlay) of the dialog a closure belongs to
CloseDlg(dlg, id) == IF dlg # None /\ dlg.id = id THEN None ELSE dlg

\* pushChange.  Besides the type and data of the source, an entry of the
\* model records `before`, the cache entry the answer replaced; the task of
\* an undo records `undone`, the entry it took off.  Both are history: no
\* handler reads them.
pushChange(log, change) == Append(log, change)

\* variants of resOk that let a handler go on without a success answer
resOkUnchecked(t) == TRUE
resOkOrRejected(t) == t.status \in {"ok", "rejected"}
resOkOrThrown(t) == t.status \in {"ok", "error"}

\* res.ok of a fetch that did not throw
resOk(t) == t.status = "ok"

\* variant of storeResult that merges the assignments into the cached entry
storeResultMerged(cache, month, result) ==
  IF result = None THEN cache
  ELSE IF cache[month].status = "ok"
  THEN [cache EXCEPT ![month] = [@ EXCEPT !.assignments = result.assignments]]
  ELSE [cache EXCEPT ![month] = result]

\* variant of storeResult that keeps an entry once a schedule is cached
storeResultKeepCached(cache, month, result) ==
  IF result # None /\ cache[month].status # "ok"
  THEN [cache EXCEPT ![month] = result] ELSE cache

\* variant of storeResult that writes the entry of the displayed month
storeResultDisplayed(cache, month, result) ==
  IF result # None THEN [cache EXCEPT ![editingMonthKey] = result] ELSE cache

\* if(data && data.result) scheduleCache[month] = data.result
storeResult(cache, month, result) ==
  IF result # None THEN [cache EXCEPT ![month] = result] ELSE cache

\* the resident holds a slot on the date in the cached schedule
AssignedOnDate(s, d, r) == \E h \in Hospitals : r \in AssignedArr(s, d, h)
\* variant of CapExceeded that leaves the new assignment out of the total
CapExceededNoIncrement(s, d, r, max) ==
  CountOf(s, r) - (IF AssignedOnDate(s, d, r) THEN 1 ELSE 0) > max

\* (cur - (assigned_on_date ? 1 : 0) + 1) > uiMax
CapExceeded(s, d, r, max) ==
  CountOf(s, r) - (IF AssignedOnDate(s, d, r) THEN 1 ELSE 0) + 1 > max

\* click on a hospital button of the assign dialog
assignClick(hosp) ==
  /\ assignModal # None
  /\ hosp \in SeqToSet(assignModal.candidates)
  /\ IF CapExceeded(scheduleCache[assignModal.month], assignModal.date,
                    assignModal.resident, uiMax)
     THEN /\ lastEvt' = Evt("assignBtn", "capExceeded")
          /\ UNCHANGED <<tasks, issued>>
     ELSE /\ CanSuspend /\ issued < MaxMutations
          /\ tasks' = tasks \cup
               {NewTask("manual_assign", "assignBtn",
                        [month |-> assignModal.month, date |-> assignModal.date,
                         resident |-> assignModal.resident, hospital |-> hosp,
                         max_assignments |-> uiMax],
                        [dlg |-> assignModal.id])}
          /\ issued' = issued + 1
          /\ lastEvt' = Evt("assignBtn", "sent")
  /\ UNCHANGED <<currentCfg, editingHospital, editingMonthKey, scheduleCache,
                 residentHighlight, residentsCache, currentDragMeta, lastChanges,
                 uiMax, calHidden, calGrid, previewTable, dataTransfer,
                 assignModal, chooser, server,
                 netSlots, lastSelected>>

\* the assign handler resumes with the backend's answer
assignResume(t) ==
  /\ t \in tasks /\ t.handler = "assignBtn" /\ t.status # "sent"
  /\ tasks' = tasks \ {t}
  /\ CASE resOk(t) ->
            /\ scheduleCache' = storeResult(scheduleCache, t.req.month, t.result)
            /\ lastChanges' = pushChange(lastChanges,
                 [type |-> "assign",
                  data |-> [month |-> t.req.month, date |-> t.req.date,
                            resident |-> t.req.resident,
                            hospital |-> t.req.hospital],
                  before |-> scheduleCache[t.req.month]])
            /\ calGrid' = renderCalendar(editingMonthKey, residentHighlight, scheduleCache')
            /\ previewTable' = renderScheduleTable(scheduleCache'[t.req.month])
            /\ assignModal' = CloseDlg(assignModal, t.ctx.dlg)
            /\ lastEvt' = Evt("assignBtn", "saved")
       [] ~resOk(t) /\ t.status # "error" ->
            /\ lastEvt' = Evt("assignBtn", "rejected")
            /\ UNCHANGED <<scheduleCache, lastChanges, calGrid, previewTable,
                           assignModal>>
       [] ~resOk(t) /\ t.status = "error" ->
            /\ assignModal' = CloseDlg(assignModal, t.ctx.dlg)
            /\ lastEvt' = Evt("assignBtn", "error")
            /\ UNCHANGED <<scheduleCache, lastChanges, calGrid, previewTable>>
  /\ UNCHANGED <<currentCfg, editingHospital, editingMonthKey, residentHighlight,
                 residentsCache, currentDragMeta, uiMax, calHidden, dataTransfer,
                 chooser, issued, server,
                 netSlots, lastSelected>>

\* click on the delete button of the assign dialog
deleteClick ==
  /\ assignModal # None
  /\ Len(assignModal.assignedHospitals) > 0
  /\ CanSuspend /\ issued < MaxMutations
  /\ tasks' = tasks \cup
       {NewTask("manual_unassign", "deleteBtn",
                [month |-> assignModal.month, date |-> assignModal.date,
                 resident |-> assignModal.resident],
                [dlg |-> assignModal.id,
                 hospitals |-> assignModal.assignedHospitals])}
  /\ issued' = issued + 1
  /\ lastEvt' = Evt("deleteBtn", "sent")
  /\ UNCHANGED <<currentCfg, editingHospital, editingMonthKey, scheduleCache,
                 residentHighlight, residentsCache, currentDragMeta, lastChanges,
                 uiMax, calHidden, calGrid, previewTable, dataTransfer,
                 assignModal, chooser, server,
                 netSlots, lastSelected>>

\* the delete handler resumes with the backend's answer
deleteResume(t) ==
  /\ t \in tasks /\ t.handler = "deleteBtn" /\ t.status # "sent"
  /\ tasks' = tasks \ {t}
  /\ IF resOk(t)
     THEN /\ scheduleCache' = storeResult(scheduleCache, t.req.month, t.result)
          /\ lastChanges' = pushChange(lastChanges,
               [type |-> "unassign",
                data |-> [month |-> t.req.month, date |-> t.req.date,
                          resident |-> t.req.resident,
                          hospitals |-> t.ctx.hospitals],
                before |-> scheduleCache[t.req.month]])
          /\ calGrid' = renderCalendar(editingMonthKey, residentHighlight, scheduleCache')
          /\ previewTable' = renderScheduleTable(scheduleCache'[t.req.month])
          /\ assignModal' = CloseDlg(assignModal, t.ctx.dlg)
          /\ lastEvt' = Evt("deleteBtn", "deleted")
     ELSE /\ lastEvt' = Evt("deleteBtn", t.status)
          /\ UNCHANGED <<scheduleCache, lastChanges, calGrid, previewTable,
                         assignModal>>
  /\ UNCHANGED <<currentCfg, editingHospital, editingMonthKey, residentHighlight,
                 residentsCache, currentDragMeta, uiMax, calHidden, dataTransfer,
                 chooser, issued, server,
                 netSlots, lastSelected>>

\* cancel button of the assign dialog
assignCancel ==
  /\ assignModal # None
  /\ assignModal' = None
  /\ lastEvt' = Evt("assignCancel", "")
  /\ UNCHANGED <<currentCfg, editingHospital, editingMonthKey, scheduleCache,
                 residentHighlight, residentsCache, currentDragMeta, lastChanges,
                 uiMax, calHidden, calGrid, previewTable, dataTransfer, chooser,
                 tasks, issued, server,
                 netSlots, lastSelected>>

(***************************************************************************)
(* Undo                                                                    *)
(***************************************************************************)
\* variant of popChange that reads the last entry and leaves it in the log
popChangePeek(log) == log

\* popChange
popChange(log) == SubSeq(log, 1, Len(log) - 1)
\* variant of Last that takes the oldest entry
Oldest(log) == log[1]

Last(log) == log[Len(log)]

\* variant of undoAssignPayload that also names the hospital of the entry
undoAssignPayloadWithHospital(ch) ==
  [month |-> ch.data.month, date |-> ch.data.date,
   resident |-> ch.data.resident, hospital |-> ch.data.hospital]

\* the payload p of the unassign that undoes an Assign entry
undoAssignPayload(ch) ==
  [month |-> ch.data.month, date |-> ch.data.date,
   resident |-> ch.data.resident]

\* variant of nextHospital that takes the hospitals from the end of the list
nextHospitalFromEnd(hospitals) == hospitals[Len(hospitals)]

\* for(const h of hospitals): the hospital of the next iteration
nextHospital(hospitals) == Head(hospitals)

\* the payload p of one re-assignment of an Unassign entry
undoUnassignPayload(ch, h, max) ==
  [month |-> ch.data.month, date |-> ch.data.date,
   resident |-> ch.data.resident, hospital |-> h, max_assignments |-> max]

\* variant of undoMovePayload that repeats the move instead of reversing it
undoMovePayloadUnswapped(ch, max) ==
  [month |-> ch.data.month, resident |-> ch.data.resident,
   from_date |-> ch.data.from_date, from_hospital |-> ch.data.from_hospital,
   to_date |-> ch.data.to_date, to_hospital |-> ch.data.to_hospital,
   max_assignments |-> max]

\* the payload of the move that undoes a Move entry
undoMovePayload(ch, max) ==
  [month |-> ch.data.month, resident |-> ch.data.resident,
   from_date |-> ch.data.to_date, from_hospital |-> ch.data.to_hospital,
   to_date |-> ch.data.from_date, to_hospital |-> ch.data.from_hospital,
   max_assignments |-> max]

\* the request that reverses a log entry (the first one, for an unassign)
undoRequest(ch, max) ==
  CASE ch.type = "assign" ->
         NewTask("manual_unassign", "undoAssign", undoAssignPayload(ch),
                 [rest |-> <<>>, undone |-> ch])
    [] ch.type = "unassign" ->
         NewTask("manual_assign", "undoUnassign",
                 undoUnassignPayload(ch, nextHospital(ch.data.hospitals), max),
                 [rest |-> Tail(ch.data.hospitals), undone |-> ch])
    [] ch.type = "move" ->
         NewTask("manual_move", "undoMove", undoMovePayload(ch, max),
                 [rest |-> <<>>, undone |-> ch])

\* variant of nothingToUndo that also gives up on a log of one entry
nothingToUndoOffByOne(log) == Len(log) <= 1

\* lastChanges.length === 0
nothingToUndo(log) == Len(log) = 0

\* undoLastChange, up to its first await
undoLastChange ==
  /\ OnCalendar /\ NoDrag
  /\ IF nothingToUndo(lastChanges)
     THEN /\ lastEvt' = Evt("undo", "nothingToUndo")
          /\ UNCHANGED <<lastChanges, tasks, calGrid, previewTable>>
     ELSE LET ch == Last(lastChanges)
          IN  /\ lastChanges' = popChange(lastChanges)
              /\ IF ch.type = "unassign" /\ Len(ch.data.hospitals) = 0
                 THEN /\ calGrid' = renderCalendar(editingMonthKey, residentHighlight,
                                                   scheduleCache)
                      /\ previewTable' = renderScheduleTable(scheduleCache[ch.data.month])
                      /\ lastEvt' = Evt("undo", "undone")
                      /\ UNCHANGED tasks
                 ELSE /\ CanSuspend
                      /\ tasks' = tasks \cup {undoRequest(ch, uiMax)}
                      /\ lastEvt' = Evt("undo", "sent")
                      /\ UNCHANGED <<calGrid, previewTable>>
  /\ UNCHANGED <<currentCfg, editingHospital, editingMonthKey, scheduleCache,
                 residentHighlight, residentsCache, currentDragMeta, uiMax,
                 calHidden, dataTransfer, assignModal, chooser, issued, server,
                 netSlots, lastSelected>>

\* undoLastChange resumes with the backend's answer; the replay of an
\* unassign goes on with the next hospital
undoResume(t) ==
  /\ t \in tasks /\ t.handler \in {"undoAssign", "undoUnassign", "undoMove"}
  /\ t.status # "sent"
  /\ IF resOk(t)
     THEN /\ scheduleCache' = storeResult(scheduleCache, t.req.month, t.result)
          /\ IF Len(t.ctx.rest) > 0
             THEN /\ tasks' = (tasks \ {t}) \cup
                       {[t EXCEPT !.status = "sent", !.result = None,
                                  !.req = undoUnassignPayload(t.ctx.undone,
                                             nextHospital(t.ctx.rest), uiMax),
                                  !.ctx.rest = Tail(t.ctx.rest)]}
                  /\ lastEvt' = Evt("undo", "replaying")
                  /\ UNCHANGED <<calGrid, previewTable>>
             ELSE /\ tasks' = tasks \ {t}
                  /\ calGrid' = renderCalendar(editingMonthKey, residentHighlight,
                                               scheduleCache')
                  /\ previewTable' = renderScheduleTable(scheduleCache'[t.req.month])
                  /\ lastEvt' = Evt("undo", "undone")
     ELSE /\ tasks' = tasks \ {t}
          /\ lastEvt' = Evt("undo", t.status)
          /\ UNCHANGED <<scheduleCache, calGrid, previewTable>>
  /\ UNCHANGED <<currentCfg, editingHospital, editingMonthKey, residentHighlight,
                 residentsCache, currentDragMeta, lastChanges, uiMax, calHidden,
                 dataTransfer, assignModal, chooser, issued, server,
                 netSlots, lastSelected>>

(***************************************************************************)
(* Calendar month grid: drag of an assigned label, drop on a day cell      *)
(***************************************************************************)
\* dragstart on the label of a day: resident = the highlight's name, source
\* hospital = the first one listed on the label
calDragStart(d) ==
  /\ OnCalendar /\ NoDrag
  /\ calGrid # None
  /\ Len(calGrid.labels[d]) > 0
  /\ residentHighlight # None
  /\ dataTransfer' = [resident |-> residentHighlight.name, from_date |-> d,
                      from_hospital |-> calGrid.labels[d][1]]
  /\ lastEvt' = Evt("calDragStart", d)
  /\ UNCHANGED <<currentCfg, editingHospital, editingMonthKey, scheduleCache,
                 residentHighlight, residentsCache, currentDragMeta, lastChanges,
                 uiMax, calHidden, calGrid, previewTable, assignModal, chooser,
                 tasks, issued, server,
                 netSlots, lastSelected>>

\* the gesture ends without a drop on a day cell
calDragEnd ==
  /\ dataTransfer # None
  /\ dataTransfer' = None
  /\ lastEvt' = Evt("calDragEnd", "")
  /\ UNCHANGED <<currentCfg, editingHospital, editingMonthKey, scheduleCache,
                 residentHighlight, residentsCache, currentDragMeta, lastChanges,
                 uiMax, calHidden, calGrid, previewTable, assignModal, chooser,
                 tasks, issued, server,
                 netSlots, lastSelected>>

\* variant of sameDate that compares the source hospital with the date
sameDateMiscompared(meta, d) == meta.from_hospital = d

\* meta.from_date === targetDate
sameDate(meta, d) == meta.from_date = d

\* variant of DropCandidates that admits a hospital with remaining = 0
DropCandidatesNonNegative(sched, cfg, d, r, isHoliday) ==
  SelectSeq(HospitalList(sched, cfg),
            LAMBDA h : \/ remaining(sched, cfg, h, d, isHoliday) >= 0
                       \/ r \in AssignedArr(sched, d, h))

\* variant of DropCandidates that offers only hospitals with a free slot
DropCandidatesOnlyFree(sched, cfg, d, r, isHoliday) ==
  SelectSeq(HospitalList(sched, cfg),
            LAMBDA h : remaining(sched, cfg, h, d, isHoliday) > 0)

\* candidates of the drop chooser: remaining > 0 or already held by the resident
DropCandidates(sched, cfg, d, r, isHoliday) ==
  SelectSeq(HospitalList(sched, cfg),
            LAMBDA h : \/ remaining(sched, cfg, h, d, isHoliday) > 0
                       \/ r \in AssignedArr(sched, d, h))

\* the drop handler once the schedule of the month is cached
calDropBody(meta, d, m, sched, isHoliday) ==
  LET cands == DropCandidates(sched, currentCfg, d, meta.resident, isHoliday)
  IN  IF Len(cands) = 0
      THEN /\ lastEvt' = Evt("calDrop", "noSlot")
           /\ UNCHANGED chooser
      ELSE /\ chooser' = [id |-> FreshDlg, meta |-> meta, targetDate |-> d,
                          monthKey |-> m, candidates |-> cands]
           /\ lastEvt' = Evt("calDrop", "chooser")

\* drop on a day cell of the calendar
calDrop(d, isHoliday, fetchOk) ==
  /\ OnCalendar
  /\ calGrid # None /\ d \in DatesOf(calGrid.month)
  /\ dataTransfer # None
  /\ dataTransfer' = None
  /\ IF residentHighlight = None
     THEN /\ lastEvt' = Evt("calDrop", "noHighlight")
          /\ UNCHANGED <<chooser, scheduleCache>>
     ELSE IF d \in calGrid.ngDay \/ d \in residentHighlight.ng_dates
     THEN /\ lastEvt' = Evt("calDrop", "ngDay")
          /\ UNCHANGED <<chooser, scheduleCache>>
     ELSE IF sameDate(dataTransfer, d)
     THEN /\ lastEvt' = Evt("calDrop", "sameDate")
          /\ UNCHANGED <<chooser, scheduleCache>>
     ELSE /\ scheduleCache' = fetchSchedule(calGrid.month, fetchOk)
          /\ calDropBody(dataTransfer, d, calGrid.month,
                         scheduleCache'[calGrid.month], isHoliday)
  /\ UNCHANGED <<currentCfg, editingHospital, editingMonthKey, residentHighlight,
                 residentsCache, currentDragMeta, lastChanges, uiMax, calHidden,
                 calGrid, previewTable, assignModal, tasks, issued, server,
                 netSlots, lastSelected>>

\* variant of movePayload that takes the destination date from the drag
movePayloadSourceDate(ch, hosp, max) ==
  [month |-> ch.monthKey, resident |-> ch.meta.resident,
   from_date |-> ch.meta.from_date, from_hospital |-> ch.meta.from_hospital,
   to_date |-> ch.meta.from_date, to_hospital |-> hosp, max_assignments |-> max]

\* payload of the chooser's move request
movePayload(ch, hosp, max) ==
  [month |-> ch.monthKey, resident |-> ch.meta.resident,
   from_date |-> ch.meta.from_date, from_hospital |-> ch.meta.from_hospital,
   to_date |-> ch.targetDate, to_hospital |-> hosp, max_assignments |-> max]

\* click on a hospital button of the drop chooser
chooserClick(hosp) ==
  /\ chooser # None
  /\ hosp \in SeqToSet(chooser.candidates)
  /\ CanSuspend /\ issued < MaxMutations
  /\ tasks' = tasks \cup
       {NewTask("manual_move", "chooserBtn", movePayload(chooser, hosp, uiMax),
                [dlg |-> chooser.id])}
  /\ issued' = issued + 1
  /\ lastEvt' = Evt("chooserBtn", "sent")
  /\ UNCHANGED <<currentCfg, editingHospital, editingMonthKey, scheduleCache,
                 residentHighlight, residentsCache, currentDragMeta, lastChanges,
                 uiMax, calHidden, calGrid, previewTable, dataTransfer,
                 assignModal, chooser, server,
                 netSlots, lastSelected>>

\* the chooser handler resumes with the backend's answer
chooserResume(t) ==
  /\ t \in tasks /\ t.handler = "chooserBtn" /\ t.status # "sent"
  /\ tasks' = tasks \ {t}
  /\ IF resOk(t)
     THEN /\ scheduleCache' = storeResult(scheduleCache, t.req.month, t.result)
          /\ lastChanges' = pushChange(lastChanges,
               [type |-> "move",
                data |-> [month |-> t.req.month, resident |-> t.req.resident,
                          from_date |-> t.req.from_date,
                          from_hospital |-> t.req.from_hospital,
                          to_date |-> t.req.to_date,
                          to_hospital |-> t.req.to_hospital],
                before |-> scheduleCache[t.req.month]])
          /\ calGrid' = renderCalendar(editingMonthKey, residentHighlight, scheduleCache')
          /\ previewTable' = renderScheduleTable(scheduleCache'[t.req.month])
          /\ chooser' = CloseDlg(chooser, t.ctx.dlg)
          /\ lastEvt' = Evt("chooserBtn", "moved")
     ELSE /\ lastEvt' = Evt("chooserBtn", t.status)
          /\ UNCHANGED <<scheduleCache, lastChanges, calGrid, previewTable, chooser>>
  /\ UNCHANGED <<currentCfg, editingHospital, editingMonthKey, residentHighlight,
                 residentsCache, currentDragMeta, uiMax, calHidden, dataTransfer,
                 assignModal, issued, server,
                 netSlots, lastSelected>>

\* cancel button of the drop chooser
chooserCancel ==
  /\ chooser # None
  /\ chooser' = None
  /\ lastEvt' = Evt("chooserCancel", "")
  /\ UNCHANGED <<currentCfg, editingHospital, editingMonthKey, scheduleCache,
                 residentHighlight, residentsCache, currentDragMeta, lastChanges,
                 uiMax, calHidden, calGrid, previewTable, dataTransfer,
                 assignModal, tasks, issued, server,
                 netSlots, lastSelected>>

(***************************************************************************)
(* Tabular view: drag of an assigned label, drop on a (date, hospital) cell *)
(***************************************************************************)
tableDragStart(name, d, h) ==
  /\ OnPage /\ NoDrag
  /\ previewTable # None
  /\ d \in SeqToSet(previewTable.out.dates)
  /\ name \in AssignedArr(previewTable.out, d, h)
  /\ currentDragMeta' = [resident |-> name, from_date |-> d, from_hospital |-> h]
  /\ lastEvt' = Evt("tableDragStart", name)
  /\ UNCHANGED <<currentCfg, editingHospital, editingMonthKey, scheduleCache,
                 residentHighlight, residentsCache, lastChanges, uiMax, calHidden,
                 calGrid, previewTable, dataTransfer, assignModal, chooser, tasks,
                 issued, server,
                 netSlots, lastSelected>>

tableDragEnd ==
  /\ currentDragMeta # None
  /\ currentDragMeta' = None
  /\ lastEvt' = Evt("tableDragEnd", "")
  /\ UNCHANGED <<currentCfg, editingHospital, editingMonthKey, scheduleCache,
                 residentHighlight, residentsCache, lastChanges, uiMax, calHidden,
                 calGrid, previewTable, dataTransfer, assignModal, chooser, tasks,
                 issued, server,
                 netSlots, lastSelected>>

\* meta.from_date === d && meta.from_hospital === h
samePlace(meta, d, h) == meta.from_date = d /\ meta.from_hospital = h

\* what the td drop handler reported for the cell it was dropped on
TableEvt(out, d, h) == [h |-> "tableDrop", out |-> out, date |-> d, hospital |-> h]

\* the td drop handler after fetchResidents: the NG check, then the capacity
\* check, which reads `sched`.  No binding of that name is in scope of
\* renderScheduleTable, so the read throws and the handler's catch reports
\* the error; the statements after it (the move request, the cache write,
\* pushChange) are never reached.
tableDropBody(meta, d, h, listed) ==
  IF listed /\ d \in NgDates[meta.resident]
  THEN lastEvt' = TableEvt("ngDay", d, h)
  ELSE lastEvt' = TableEvt("dropError", d, h)

\* variant of dropIntent that reads the variable again after the await
dropIntentReread(captured, current) ==
  IF current # None THEN current ELSE captured

\* const meta = currentDragMeta: the intent the handler goes on with after
\* its await is the local it bound before
dropIntent(captured, current) == captured

\* drop on a cell of the preview table; without a drag intent the handler
\* returns at its first statement
tableDrop(d, h) ==
  /\ OnPage
  /\ previewTable # None
  /\ d \in SeqToSet(previewTable.out.dates) /\ h \in SeqToSet(previewTable.out.hospitals)
  /\ IF currentDragMeta = None
     THEN /\ lastEvt' = TableEvt("noIntent", d, h)
          /\ UNCHANGED tasks
     ELSE IF samePlace(currentDragMeta, d, h)
     THEN /\ lastEvt' = TableEvt("samePlace", d, h)
          /\ UNCHANGED tasks
     ELSE IF residentsCache[previewTable.month]
     THEN /\ tableDropBody(currentDragMeta, d, h, TRUE)
          /\ UNCHANGED tasks
     ELSE /\ CanSuspend
          /\ tasks' = tasks \cup
               {NewTask("residents", "tableDrop", [month |-> previewTable.month],
                        [meta |-> currentDragMeta, date |-> d, hospital |-> h])}
          /\ lastEvt' = TableEvt("fetching", d, h)
  /\ UNCHANGED <<currentCfg, editingHospital, editingMonthKey, scheduleCache,
                 residentHighlight, residentsCache, currentDragMeta, lastChanges,
                 uiMax, calHidden, calGrid, previewTable, dataTransfer,
                 assignModal, chooser, issued, server,
                 netSlots, lastSelected>>

\* the td drop handler resumes after fetchResidents
tableDropResume(t, fetchOk) ==
  /\ t \in tasks /\ t.handler = "tableDrop"
  /\ residentsCache' = IF fetchOk
                       THEN [residentsCache EXCEPT ![t.req.month] = TRUE]
                       ELSE residentsCache
  /\ tableDropBody(dropIntent(t.ctx.meta, currentDragMeta),
                   t.ctx.date, t.ctx.hospital, fetchOk)
  /\ tasks' = tasks \ {t}
  /\ UNCHANGED <<currentCfg, editingHospital, editingMonthKey, scheduleCache,
                 residentHighlight, currentDragMeta, lastChanges, uiMax, calHidden,
                 calGrid, previewTable, dataTransfer, assignModal, chooser,
                 issued, server,
                 netSlots, lastSelected>>

(***************************************************************************)
(* Specification                                                           *)
(***************************************************************************)
NextBackend ==
  \/ \E t \in tasks : BackendAccept(t)
  \/ \E t \in tasks : BackendReject(t)
  \/ \E t \in tasks : NetworkError(t)

NextCalendar ==
  \/ runSolver(NowMonth)
  \/ \E r \in Residents : showResidentCalendar(r)
  \/ \E t \in tasks, fetchOk \in BOOLEAN : showResidentCalendarResume(t, fetchOk)
  \/ \E t \in tasks : fetchScheduleResume(t)
  \/ closeCalendar

NextAssign ==
  \/ \E d \in Dates, isHoliday, fetchOk \in BOOLEAN : cellClick(d, isHoliday, fetchOk)
  \/ \E h \in Hospitals : assignClick(h)
  \/ \E t \in tasks : assignResume(t)
  \/ deleteClick
  \/ \E t \in tasks : deleteResume(t)
  \/ assignCancel

NextUndo ==
  \/ undoLastChange
  \/ \E t \in tasks : undoResume(t)

NextCalDrop ==
  \/ \E d \in Dates : calDragStart(d)
  \/ calDragEnd
  \/ \E d \in Dates, isHoliday, fetchOk \in BOOLEAN : calDrop(d, isHoliday, fetchOk)
  \/ \E h \in Hospitals : chooserClick(h)
  \/ \E t \in tasks : chooserResume(t)
  \/ chooserCancel

NextHighlight ==
  \/ \E r \in Residents : labelClick(r)
  \/ \E t \in tasks, fetchOk \in BOOLEAN : labelClickResume(t, fetchOk)
  \/ openCalendar("General")

NextTable ==
  \/ \E r \in Residents, d \in Dates, h \in Hospitals : tableDragStart(r, d, h)
  \/ tableDragEnd
  \/ \E d \in Dates, h \in Hospitals : tableDrop(d, h)
  \/ \E t \in tasks, fetchOk \in BOOLEAN : tableDropResume(t, fetchOk)

\* the edit engine: calendar of a resident, assign dialog, drop chooser, undo
Next == NextBackend \/ NextCalendar \/ NextAssign \/ NextUndo \/ NextCalDrop

Spec == Init /\ [][Next]_vars

(***************************************************************************)
(* The capacity arithmetic over its input space                            *)
(***************************************************************************)
\* a Saturday, a Sunday and a Tuesday; the schedules hold no entry for the
\* Sunday
CapDates == {"2024-06-01", "2024-06-02", "2024-06-04"}
NoEntry == 0 - 1
Entries == {NoEntry} \cup (0 .. MaxCapacity)
\* a hospital's configuration: a date-specific entry for the Saturday and
\* weekday entries for Saturday ("5"), Sunday ("6") and Tuesday ("1"), each
\* one set or not
HospCfg(sat, k5, k6, k1) ==
  LET keys == (IF sat # NoEntry THEN {"2024-06-01"} ELSE {}) \cup
              (IF k5 # NoEntry THEN {"5"} ELSE {}) \cup
              (IF k6 # NoEntry THEN {"6"} ELSE {}) \cup
              (IF k1 # NoEntry THEN {"1"} ELSE {})
  IN  [k \in keys |-> CASE k = "2024-06-01" -> sat
                        [] k = "5" -> k5
                        [] k = "6" -> k6
                        [] k = "1" -> k1]
HospCfgs ==
  {HospCfg(sat, k5, k6, k1) :
     sat \in Entries, k5 \in Entries, k6 \in {NoEntry, 1}, k1 \in Entries}
\* every hospital configured alike, or the university hospital only
CapCfgs ==
  UNION {{[h \in Hospitals |-> c], [h \in {UnivHospital} |-> c]} : c \in HospCfgs}
\* cached schedules of the month: absent, or some residents on the Saturday
\* and some on the Tuesday, in every hospital
CapSchedules ==
  {Absent} \cup
  {MkSchedule(NowMonth,
              [NoAssignments EXCEPT !["2024-06-01"] = [h \in Hospitals |-> s1],
                                    !["2024-06-04"] = [h \in Hospitals |-> s2]]) :
     s1 \in SUBSET Residents, s2 \in SUBSET Residents}

\* the calendar of the month is open on some configuration and cache entry
InitCapacity ==
  /\ currentCfg \in CapCfgs
  /\ editingHospital = "General"
  /\ editingMonthKey = NowMonth
  /\ scheduleCache \in {[m \in Months |-> IF m = NowMonth THEN s ELSE Absent] :
                           s \in CapSchedules}
  /\ residentHighlight = None
  /\ residentsCache = [m \in Months |-> FALSE]
  /\ currentDragMeta = None
  /\ lastChanges = <<>>
  /\ uiMax = 2
  /\ calHidden = FALSE
  /\ calGrid = None
  /\ previewTable = None
  /\ dataTransfer = None
  /\ assignModal = None
  /\ chooser = None
  /\ tasks = {}
  /\ issued = 0
  /\ server = [m \in Months |-> MkSchedule(m, InitAssignments(m))]
  /\ netSlots = MaxInFlight
  /\ lastSelected = "null"
  /\ lastEvt = Evt("init", "")

\* what one round of a candidate loop computed
RemainingEvt(site, hosp, d, isHoliday, capacity, value) ==
  [h |-> site, out |-> "remaining", hosp |-> hosp, date |-> d,
   holiday |-> isHoliday, capacity |-> capacity, value |-> value]

\* one round of the candidate loop of openAssignModal
assignModalRemaining(hosp, d, isHoliday) ==
  /\ hosp \in SeqToSet(HospitalList(scheduleCache[editingMonthKey], currentCfg))
  /\ lastEvt' = RemainingEvt("openAssignModal", hosp, d, isHoliday,
                   capacityOf(currentCfg, hosp, d),
                   remaining(scheduleCache[editingMonthKey], currentCfg, hosp, d,
                             isHoliday))
  /\ UNCHANGED <<currentCfg, editingHospital, editingMonthKey, scheduleCache,
                 residentHighlight, residentsCache, currentDragMeta, lastChanges,
                 uiMax, calHidden, calGrid, previewTable, dataTransfer,
                 assignModal, chooser, tasks, issued, server,
                 netSlots, lastSelected>>

\* one round of the candidate loop of the calendar drop handler
chooserRemaining(hosp, d, isHoliday) ==
  /\ hosp \in SeqToSet(HospitalList(scheduleCache[editingMonthKey], currentCfg))
  /\ lastEvt' = RemainingEvt("calDrop", hosp, d, isHoliday,
                   capacityOf(currentCfg, hosp, d),
                   remaining(scheduleCache[editingMonthKey], currentCfg, hosp, d,
                             isHoliday))
  /\ UNCHANGED <<currentCfg, editingHospital, editingMonthKey, scheduleCache,
                 residentHighlight, residentsCache, currentDragMeta, lastChanges,
                 uiMax, calHidden, calGrid, previewTable, dataTransfer,
                 assignModal, chooser, tasks, issued, server,
                 netSlots, lastSelected>>

NextCapacity ==
  \E hosp \in Hospitals, d \in CapDates, isHoliday \in BOOLEAN :
     \/ assignModalRemaining(hosp, d, isHoliday)
     \/ chooserRemaining(hosp, d, isHoliday)

SpecCapacity == InitCapacity /\ [][NextCapacity]_vars

(***************************************************************************)
(* The weekday mapping over a whole week                                   *)
(***************************************************************************)
\* Saturday 1 June to Friday 7 June 2024, and a second Tuesday
WeekDates == {"2024-06-01", "2024-06-02", "2024-06-03", "2024-06-04",
              "2024-06-05", "2024-06-06", "2024-06-07", "2024-06-11"}
\* configurations with one weekday key set and no date-specific entry
WeekCfgs ==
  {[h \in Hospitals |-> (WeekdayKeys[i] :> v)] :
     i \in 1 .. Len(WeekdayKeys), v \in 1 .. MaxCapacity}

InitWeekday ==
  /\ currentCfg \in WeekCfgs
  /\ editingHospital = "General"
  /\ editingMonthKey = NowMonth
  /\ scheduleCache \in {[m \in Months |-> IF m = NowMonth THEN s ELSE Absent] :
                           s \in {Absent, MkSchedule(NowMonth, NoAssignments)}}
  /\ residentHighlight = None
  /\ residentsCache = [m \in Months |-> FALSE]
  /\ currentDragMeta = None
  /\ lastChanges = <<>>
  /\ uiMax = 2
  /\ calHidden = FALSE
  /\ calGrid = None
  /\ previewTable = None
  /\ dataTransfer = None
  /\ assignModal = None
  /\ chooser = None
  /\ tasks = {}
  /\ issued = 0
  /\ server = [m \in Months |-> MkSchedule(m, InitAssignments(m))]
  /\ netSlots = MaxInFlight
  /\ lastSelected = "null"
  /\ lastEvt = Evt("init", "")

NextWeekday ==
  \E hosp \in Hospitals, d \in WeekDates, isHoliday \in BOOLEAN :
     \/ assignModalRemaining(hosp, d, isHoliday)
     \/ chooserRemaining(hosp, d, isHoliday)

SpecWeekday == InitWeekday /\ [][NextWeekday]_vars

(***************************************************************************)
(* Sessions with two requests outstanding at once                          *)
(***************************************************************************)
InitRace ==
  /\ currentCfg \in CfgChoices
  /\ editingHospital = "null"
  /\ editingMonthKey = "null"
  /\ scheduleCache = [m \in Months |-> Absent]
  /\ residentHighlight = None
  /\ residentsCache = [m \in Months |-> FALSE]
  /\ currentDragMeta = None
  /\ lastChanges = <<>>
  /\ uiMax = 2
  /\ calHidden = TRUE
  /\ calGrid = None
  /\ previewTable = None
  /\ dataTransfer = None
  /\ assignModal = None
  /\ chooser = None
  /\ tasks = {}
  /\ issued = 0
  /\ server = [m \in Months |-> MkSchedule(m, InitAssignments(m))]
  /\ netSlots = MaxRacing
  /\ lastSelected = "null"
  /\ lastEvt = Evt("init", "")

\* the page around the calendar: solver run, schedule answers, close button
NextPage ==
  \/ runSolver(NowMonth)
  \/ \E t \in tasks : fetchScheduleResume(t)
  \/ closeCalendar

\* the backend answers a fetch
NextFetchBackend ==
  \/ \E t \in tasks : BackendAccept(t)
  \/ \E t \in tasks : BackendReject(t)

\* label selection and the hospital calendar, two fetches at once
NextRace == NextFetchBackend \/ NextPage \/ NextHighlight

SpecRace == InitRace /\ [][NextRace]_vars

\* the editing session with the month buttons of the calendar
NextMonths ==
  \/ NextBackend \/ NextAssign \/ NextUndo
  \/ runSolver(NowMonth)
  \/ showResidentCalendar("r1")
  \/ \E t \in tasks, fetchOk \in BOOLEAN : showResidentCalendarResume(t, fetchOk)
  \/ \E t \in tasks : fetchScheduleResume(t)
  \/ closeCalendar
  \/ \E m \in Months : calNav(m)

SpecMonths == Init /\ [][NextMonths]_vars

\* the calendar modal as capacity editor and as NG view, with its save button
NextSave ==
  \/ NextFetchBackend
  \/ NextPage
  \/ \E r \in Residents : showResidentCalendar(r)
  \/ \E t \in tasks, fetchOk \in BOOLEAN : showResidentCalendarResume(t, fetchOk)
  \/ openCalendar("General")
  \/ \E m \in Months : calNav(m)
  \/ \E v \in 0..MaxCapacity : calSave([c \in Dates |-> v])

SpecSave == Init /\ [][NextSave]_vars

\* the page after a solver run and a click on r1's label, residents listed
LabelOfR1Selected ==
  /\ editingHospital = "null"
  /\ editingMonthKey = "null"
  /\ scheduleCache = [m \in Months |-> Absent]
  /\ residentHighlight =
       [name |-> "r1", month |-> NowMonth, ng_dates |-> NgDates["r1"]]
  /\ residentsCache = [m \in Months |-> m = NowMonth]
  /\ currentDragMeta = None
  /\ lastChanges = <<>>
  /\ calHidden = TRUE
  /\ calGrid = None
  /\ previewTable =
       highlightPreviewTargets(renderScheduleTable(server[NowMonth]), Absent,
                               currentCfg, NgDates["r1"])
  /\ dataTransfer = None
  /\ assignModal = None
  /\ chooser = None
  /\ tasks = {}
  /\ issued = 0
  /\ lastSelected = "r1"

InitStale ==
  /\ currentCfg \in CfgChoices
  /\ uiMax = 2
  /\ server = [m \in Months |-> MkSchedule(m, InitAssignments(m))]
  /\ netSlots = MaxRacing
  /\ LabelOfR1Selected
  /\ lastEvt = Evt("labelClick", "selected")

\* the hospital calendar opened from the page with r1 selected, its schedule
\* fetches, and the assign dialog
NextStale ==
  \/ NextBackend
  \/ openCalendar("General")
  \/ \E t \in tasks : fetchScheduleResume(t)
  \/ closeCalendar
  \/ NextAssign

SpecStale == InitStale /\ [][NextStale]_vars

\* the calendar of r1 as showResidentCalendar leaves it after a solver run
CalendarOfR1 ==
  LET hl == [name |-> "r1", month |-> NowMonth, ng_dates |-> NgDates["r1"]]
      cache == [m \in Months |-> IF m = NowMonth THEN server[m] ELSE Absent]
  IN  /\ editingHospital = "null"
      /\ editingMonthKey = NowMonth
      /\ scheduleCache = cache
      /\ residentHighlight = hl
      /\ residentsCache = [m \in Months |-> FALSE]
      /\ currentDragMeta = None
      /\ lastChanges = <<>>
      /\ calHidden = FALSE
      /\ calGrid = renderCalendar(NowMonth, hl, cache)
      /\ previewTable = renderScheduleTable(server[NowMonth])
      /\ dataTransfer = None
      /\ assignModal = None
      /\ chooser = None
      /\ tasks = {}
      /\ issued = 0
      /\ lastSelected = "r1"

InitOverlap ==
  /\ currentCfg \in CfgChoices
  /\ uiMax = 2
  /\ server = [m \in Months |-> MkSchedule(m, InitAssignments(m))]
  /\ netSlots = MaxRacing
  /\ CalendarOfR1
  /\ lastEvt = Evt("fetchSchedule", "ok")

\* the assign dialog and undo with two mutation requests at once
NextOverlap == NextBackend \/ NextAssign \/ NextUndo

SpecOverlap == InitOverlap /\ [][NextOverlap]_vars

(***************************************************************************)
(* Sessions whose configuration lacks hospitals of the schedule            *)
(***************************************************************************)
\* configurations with no hospital at all, or with General alone
PartialCfgs ==
  { [h \in D |-> cfg[h]] : cfg \in CfgChoices, D \in {{}, {"General"}} }

InitCfg ==
  /\ currentCfg \in PartialCfgs
  /\ editingHospital = "null"
  /\ editingMonthKey = "null"
  /\ scheduleCache = [m \in Months |-> Absent]
  /\ residentHighlight = None
  /\ residentsCache = [m \in Months |-> FALSE]
  /\ currentDragMeta = None
  /\ lastChanges = <<>>
  /\ uiMax = 2
  /\ calHidden = TRUE
  /\ calGrid = None
  /\ previewTable = None
  /\ dataTransfer = None
  /\ assignModal = None
  /\ chooser = None
  /\ tasks = {}
  /\ issued = 0
  /\ server = [m \in Months |-> MkSchedule(m, InitAssignments(m))]
  /\ netSlots = MaxInFlight
  /\ lastSelected = "null"
  /\ lastEvt = Evt("init", "")

\* the edit engine together with the hospital calendar of the configuration
\* table, which is the one handler here that writes currentCfg
NextCfg == Next \/ openCalendar("General")

SpecCfg == InitCfg /\ [][NextCfg]_vars

\* the two drop views with the highlight session
NextDrop == NextBackend \/ NextCalendar \/ NextHighlight \/ NextCalDrop \/ NextTable

SpecDrop == Init /\ [][NextDrop]_vars


(***************************************************************************)
(* Properties                                                              *)
(***************************************************************************)
\* handlers of the forward operations (assign, unassign, move)
ForwardHandlers == {"assignBtn", "deleteBtn", "chooserBtn", "tableDrop"}

\* this step handles the answer of t: t had an answer and is gone, or its
\* handler has gone on to its next request
Processed(t) ==
  /\ t \in tasks /\ t.status # "sent"
  /\ \A u \in tasks' : u.id = t.id => u.status = "sent"

\* the requests this step issues
IssuedNow == {t \in tasks' \ tasks : t.status = "sent"}

\* the log entry describes the request of t
EntryOf(e, t) ==
  /\ e.data.month = t.req.month
  /\ e.data.resident = t.req.resident
  /\ CASE t.api = "manual_assign" ->
            /\ e.type = "assign" /\ e.data.date = t.req.date
            /\ e.data.hospital = t.req.hospital
       [] t.api = "manual_unassign" ->
            e.type = "unassign" /\ e.data.date = t.req.date
       [] t.api = "manual_move" ->
            /\ e.type = "move"
            /\ e.data.from_date = t.req.from_date
            /\ e.data.from_hospital = t.req.from_hospital
            /\ e.data.to_date = t.req.to_date
            /\ e.data.to_hospital = t.req.to_hospital
       [] OTHER -> FALSE

\* C1: the undo log changes only by undo taking its last entry off, or by
\* one entry being pushed in the step that handles the success answer of the
\* forward assign, unassign or move request the entry describes; nothing is
\* pushed while the request is in flight, after a rejection or after a
\* network error.
C1_LogPushedOnlyAfterSuccess ==
  [][lastChanges' # lastChanges =>
       \/ Len(lastChanges) > 0 /\ lastChanges' = SubSeq(lastChanges, 1, Len(lastChanges) - 1)
       \/ \E t \in tasks :
            /\ Processed(t) /\ t.handler \in ForwardHandlers
            /\ IsMutation(t.api) /\ t.status = "ok"
            /\ Len(lastChanges') = Len(lastChanges) + 1
            /\ SubSeq(lastChanges', 1, Len(lastChanges)) = lastChanges
            /\ EntryOf(lastChanges'[Len(lastChanges')], t)]_vars

\* two entries have been pushed, the second by the assign dialog
C1_Witness ==
  /\ Len(lastChanges) = 2
  /\ lastChanges[2].type = "assign"
  /\ lastEvt = Evt("assignBtn", "saved")

\* C2: the step that handles the rejection (non-success answer) of a forward
\* assign, unassign or move request leaves the undo log and the schedule
\* cache as they are, and so did the step that issued the request.
C2_RejectionLeavesLogAndCache ==
  [][/\ \A t \in tasks :
          (Processed(t) /\ t.handler \in ForwardHandlers /\ t.status = "rejected")
            => UNCHANGED <<lastChanges, scheduleCache>>
     /\ \A t \in IssuedNow :
          (t.handler \in ForwardHandlers /\ IsMutation(t.api))
            => UNCHANGED <<lastChanges, scheduleCache>>]_vars

\* a move was rejected while the log held an entry, which is still there
C2_Witness ==
  /\ lastEvt = Evt("chooserBtn", "rejected")
  /\ Len(lastChanges) = 1
  /\ chooser # None

\* currentTotal - (alreadyOnThisDate ? 1 : 0) + 1 of the cached schedule
ProjectedTotal(s, d, r) ==
  LET currentTotal == IF s.status = "ok" THEN s.per_res_counts[r] ELSE 0
      alreadyOnThisDate ==
        s.status = "ok" /\ \E h \in DOMAIN s.assignments[d] : r \in s.assignments[d][h]
  IN  currentTotal - (IF alreadyOnThisDate THEN 1 ELSE 0) + 1

\* C3: the assign dialog sends no assign request when currentTotal -
\* (alreadyOnThisDate ? 1 : 0) + 1 of the cached schedule exceeds max, and the
\* click that is refused for it changes neither the requests in flight, the
\* undo log, the schedule cache nor the backend.
C3_CapExceededSendsNothing ==
  [][/\ \A t \in IssuedNow :
          t.handler = "assignBtn" =>
            ProjectedTotal(scheduleCache[t.req.month], t.req.date, t.req.resident)
              <= t.req.max_assignments
     /\ (/\ assignModal # None
         /\ lastEvt'.h = "assignBtn"
         /\ \A t \in tasks : ~Processed(t)
         /\ ProjectedTotal(scheduleCache[assignModal.month], assignModal.date,
                           assignModal.resident) > uiMax)
          => UNCHANGED <<tasks, issued, lastChanges, scheduleCache, server>>]_vars

\* a click in the assign dialog was refused for the cap
C3_Witness ==
  /\ lastEvt = Evt("assignBtn", "capExceeded")
  /\ assignModal # None
  /\ ProjectedTotal(scheduleCache[assignModal.month], assignModal.date,
                    assignModal.resident) > uiMax

\* C4: the step that issues a forward assign, unassign or move request
\* changes neither the schedule cache nor the undo log; a mutation answer
\* that is not a success is handled without a change to either; and the
\* schedule cache is written only in a step that handles a success answer of
\* a mutation, the answer of a schedule fetch, or fills an absent entry from
\* a schedule fetch.
C4_FireAndConfirm ==
  [][/\ \A t \in IssuedNow :
          (t.handler \in ForwardHandlers /\ IsMutation(t.api))
            => UNCHANGED <<scheduleCache, lastChanges>>
     /\ \A t \in tasks :
          (Processed(t) /\ IsMutation(t.api) /\ t.handler \in ForwardHandlers
             /\ t.status # "ok")
            => UNCHANGED <<scheduleCache, lastChanges>>
     /\ scheduleCache' # scheduleCache =>
          \/ \E t \in tasks :
               /\ Processed(t)
               /\ IsMutation(t.api) => t.status = "ok"
               /\ \A m \in Months \ {t.req.month} : scheduleCache'[m] = scheduleCache[m]
          \/ \E m \in Months :
               /\ scheduleCache[m] = Absent
               /\ \A k \in Months \ {m} : scheduleCache'[k] = scheduleCache[k]]_vars

\* the backend has carried out an unassign whose answer the client has not
\* handled yet: the cache still holds the resident, the log is empty
C4_Witness ==
  \E t \in tasks :
    /\ t.handler = "deleteBtn" /\ t.status = "ok"
    /\ scheduleCache[t.req.month] # t.result
    /\ server[t.req.month] = t.result
    /\ lastChanges = <<>>

\* C5: in the step that handles the success answer of an assign, unassign or
\* move request, forward or issued by undo, the schedule cache entry of the
\* request's month becomes the schedule of the answer, whatever it held, and
\* the other entries stay.
C5_CacheIsResponseSnapshot ==
  [][\A t \in tasks :
       (Processed(t) /\ IsMutation(t.api) /\ t.status = "ok")
         => /\ scheduleCache'[t.req.month] = t.result
            /\ \A m \in Months \ {t.req.month} : scheduleCache'[m] = scheduleCache[m]]_vars

\* a success answer has just replaced the error sentinel of the month
C5_Witness ==
  /\ lastEvt = Evt("assignBtn", "saved")
  /\ previewTable # None /\ previewTable.out = scheduleCache[previewTable.month]
  /\ scheduleCache[NowMonth].status = "ok"
  /\ Len(lastChanges) = 1
  /\ issued = 1
  /\ \E d \in Dates, h \in Hospitals :
       Cardinality(scheduleCache[NowMonth].assignments[d][h]) >
         capacityOf(currentCfg, h, d) + (IF h = UnivHospital THEN WeekendBonus ELSE 0)

\* C6: when the success answer of the undo of an assign entry is handled,
\* the assign being the only forward mutation issued so far, the cached
\* assignments of the month are those the cache held before the assign,
\* also when the resident already held a slot on that date.
C6_AssignUndoRoundTrip ==
  [][\A t \in tasks :
       (/\ Processed(t) /\ t.handler = "undoAssign" /\ t.status = "ok"
        /\ issued = 1
        /\ t.ctx.undone.before.status = "ok")
         => scheduleCache'[t.req.month].assignments
              = t.ctx.undone.before.assignments]_vars

\* the drop handlers of the two views
DropHandlers == {"chooserBtn", "tableDrop"}

\* C7: no move request of a drop, in the calendar or in the tabular view,
\* has a destination date in the NG set of the resident it moves.
C7_NoMoveOntoNgDate ==
  \A t \in tasks :
    (t.api = "manual_move" /\ t.handler \in DropHandlers)
      => t.req.to_date \notin NgDates[t.req.resident]

\* the hospital is full on the date and does not hold the resident
FullFor(s, cfg, h, d, r, isHoliday) ==
  remaining(s, cfg, h, d, isHoliday) <= 0 /\ r \notin AssignedArr(s, d, h)

\* C8: a drop offers no destination hospital that is full (remaining <= 0)
\* and does not hold the moved resident; the move request of a drop goes to
\* a hospital the drop offered; a drop that finds no hospital sends nothing
\* and leaves the undo log and the backend alone; the tabular drop sends no
\* move request at all.
C8_FullDestinationRejected ==
  [][/\ (chooser' # None /\ chooser' # chooser) =>
          \E isHoliday \in BOOLEAN :
            \A h \in SeqToSet(chooser'.candidates) :
              ~FullFor(scheduleCache'[chooser'.monthKey], currentCfg, h,
                       chooser'.targetDate, chooser'.meta.resident, isHoliday)
     /\ \A t \in IssuedNow :
          (t.api = "manual_move" /\ t.handler \in DropHandlers) =>
            /\ t.handler = "chooserBtn"
            /\ chooser # None
            /\ t.req.to_date = chooser.targetDate
            /\ t.req.to_hospital \in SeqToSet(chooser.candidates)
     /\ lastEvt' = Evt("calDrop", "noSlot") =>
          UNCHANGED <<tasks, issued, lastChanges, server, chooser>>]_vars

\* the chooser is open for a date on which the ordinary hospital is full and
\* is not offered
C8_Witness ==
  /\ chooser # None
  /\ "General" \notin SeqToSet(chooser.candidates)
  /\ \A isHoliday \in BOOLEAN :
       FullFor(scheduleCache[chooser.monthKey], currentCfg, "General",
               chooser.targetDate, chooser.meta.resident, isHoliday)
  /\ lastEvt = Evt("calDrop", "chooser")

\* C9: no move request has a destination equal to its source, and a drop
\* refused for it (same date in the calendar, same cell in the table) sends
\* nothing and leaves the undo log, the schedule cache and the backend alone.
C9_NoSelfMove ==
  [][/\ \A t \in tasks' :
          t.api = "manual_move" =>
            ~(t.req.from_date = t.req.to_date
                /\ t.req.from_hospital = t.req.to_hospital)
     /\ (\/ lastEvt' = Evt("calDrop", "sameDate")
         \/ lastEvt'.h = "tableDrop" /\ lastEvt'.out = "samePlace")
          => UNCHANGED <<tasks, issued, lastChanges, scheduleCache, server, chooser>>]_vars

\* a label was dropped on the day it was dragged from
C9_Witness ==
  /\ lastEvt = Evt("calDrop", "sameDate")
  /\ dataTransfer = None /\ chooser = None /\ tasks = {}

\* the drag intent a tabular drop handler ran with in this step
DropMeta ==
  IF \E t \in tasks : Processed(t) /\ t.handler = "tableDrop"
  THEN (CHOOSE t \in tasks : Processed(t) /\ t.handler = "tableDrop").ctx.meta
  ELSE currentDragMeta

\* C10: a tabular drop whose handler has run to its end for a cell that
\* differs from the source, is no NG date of the resident and has remaining
\* > 0 (or holds the resident) in the schedule the table shows has sent one
\* move request with that cell as its destination.
C10_TabularDropSendsMove ==
  [][(/\ lastEvt'.h = "tableDrop" /\ lastEvt'.out # "fetching"
      /\ DropMeta # None
      /\ ~(DropMeta.from_date = lastEvt'.date
             /\ DropMeta.from_hospital = lastEvt'.hospital)
      /\ lastEvt'.date \notin NgDates[DropMeta.resident]
      /\ \/ remaining(previewTable.out, currentCfg, lastEvt'.hospital,
                      lastEvt'.date, FALSE) > 0
         \/ DropMeta.resident \in
              AssignedArr(previewTable.out, lastEvt'.date, lastEvt'.hospital))
       => \E t \in IssuedNow :
            /\ t.api = "manual_move"
            /\ t.req.resident = DropMeta.resident
            /\ t.req.from_date = DropMeta.from_date
            /\ t.req.from_hospital = DropMeta.from_hospital
            /\ t.req.to_date = lastEvt'.date
            /\ t.req.to_hospital = lastEvt'.hospital]_vars

\* C11: in the calendar view the drop step sends no request; a move request
\* of the chooser is issued with the chooser open, to a hospital the chooser
\* offers, for the date dropped on and the label dragged; cancelling the
\* chooser sends nothing and changes nothing but the chooser.
C11_MoveOnlyAfterChoice ==
  [][/\ lastEvt'.h = "calDrop" => IssuedNow = {} /\ tasks' = tasks
     /\ \A t \in IssuedNow :
          t.handler = "chooserBtn" =>
            /\ chooser # None
            /\ t.api = "manual_move"
            /\ t.req.to_hospital \in SeqToSet(chooser.candidates)
            /\ t.req.to_date = chooser.targetDate
            /\ t.req.from_date = chooser.meta.from_date
            /\ t.req.from_hospital = chooser.meta.from_hospital
            /\ t.req.resident = chooser.meta.resident
            /\ IssuedNow = {t}
     /\ lastEvt' = Evt("chooserCancel", "") =>
          /\ chooser' = None
          /\ UNCHANGED <<currentCfg, editingHospital, editingMonthKey, scheduleCache,
                         residentHighlight, residentsCache, currentDragMeta,
                         lastChanges, uiMax, calHidden, calGrid, previewTable,
                         dataTransfer, assignModal, tasks, issued, server>>]_vars

\* the chooser offered two hospitals and the move to one of them is in flight
C11_Witness ==
  /\ chooser # None
  /\ Len(chooser.candidates) = 2
  /\ lastEvt = Evt("chooserBtn", "sent")
  /\ \E t \in tasks :
       /\ t.handler = "chooserBtn" /\ t.status = "sent"
       /\ t.req.to_date = chooser.targetDate

\* this step is a click on the undo button (undoLastChange up to its first
\* await), not the handling of an answer
UndoClick == lastEvt'.h = "undo" /\ \A t \in tasks : ~Processed(t)

\* the request reverses the log entry (for an unassign: re-assigns the
\* hospital given)
Reverses(req, api, e, hosp) ==
  /\ req.month = e.data.month /\ req.resident = e.data.resident
  /\ CASE e.type = "assign" ->
            api = "manual_unassign" /\ req.date = e.data.date
       [] e.type = "unassign" ->
            /\ api = "manual_assign" /\ req.date = e.data.date
            /\ req.hospital = hosp
       [] e.type = "move" ->
            /\ api = "manual_move"
            /\ req.from_date = e.data.to_date
            /\ req.from_hospital = e.data.to_hospital
            /\ req.to_date = e.data.from_date
            /\ req.to_hospital = e.data.from_hospital
       [] OTHER -> FALSE

\* C12: a click on undo with a non-empty log takes the most recently pushed
\* entry off the log, leaves the older entries in place, and the request it
\* issues reverses that entry (after Assign then Move: first the reverse
\* move, then the unassign); with an empty log it reports nothing-to-undo.
C12_UndoIsLifo ==
  [][UndoClick =>
       IF Len(lastChanges) = 0
       THEN lastEvt' = Evt("undo", "nothingToUndo") /\ lastChanges' = <<>>
       ELSE LET e == lastChanges[Len(lastChanges)]
            IN  /\ lastChanges' = SubSeq(lastChanges, 1, Len(lastChanges) - 1)
                /\ \A t \in IssuedNow :
                     Reverses(t.req, t.api, e,
                              IF e.type = "unassign" THEN e.data.hospitals[1] ELSE "")
                /\ Cardinality(IssuedNow) =
                     IF e.type = "unassign" /\ Len(e.data.hospitals) = 0 THEN 0 ELSE 1]_vars

\* the log held Assign then Move; the first undo has taken the Move off and
\* its reverse move is in flight
C12_Witness ==
  /\ Len(lastChanges) = 1
  /\ lastChanges[1].type = "assign"
  /\ lastEvt = Evt("undo", "sent")
  /\ \E t \in tasks :
       /\ t.handler = "undoMove" /\ t.status = "sent"
       /\ t.req.from_date = t.ctx.undone.data.to_date

\* C13: a click on undo with an empty log reports nothing-to-undo, sends no
\* request and leaves the log, the schedule cache, the rendered views and
\* the backend as they are; nothing-to-undo is reported for no other log.
C13_UndoOnEmptyLog ==
  [][/\ (UndoClick /\ Len(lastChanges) = 0) =>
          /\ lastEvt' = Evt("undo", "nothingToUndo")
          /\ UNCHANGED <<tasks, issued, lastChanges, scheduleCache, server,
                         calGrid, previewTable>>
     /\ lastEvt' = Evt("undo", "nothingToUndo") => lastChanges = <<>>]_vars

\* undo was clicked on an empty log while the month was cached
C13_Witness ==
  /\ lastEvt = Evt("undo", "nothingToUndo")
  /\ lastChanges = <<>> /\ tasks = {}
  /\ scheduleCache[NowMonth].status = "ok"

UndoHandlers == {"undoAssign", "undoUnassign", "undoMove"}
\* the entry a click on undo takes off the log
Undone == lastChanges[Len(lastChanges)]
UndoOf(type) == UndoClick /\ Len(lastChanges) > 0 /\ Undone.type = type

\* C14: undoing an Assign entry sends exactly one request, an unassign whose
\* payload is the month, date and resident of that entry; handling the
\* answer to it sends nothing further.
C14_UndoAssignSendsOneUnassign ==
  [][/\ UndoOf("assign") =>
          \E t \in IssuedNow :
             /\ IssuedNow = {t}
             /\ t.api = "manual_unassign"
             /\ t.req = [month |-> Undone.data.month, date |-> Undone.data.date,
                         resident |-> Undone.data.resident]
     /\ \A t \in tasks : t.handler = "undoAssign" /\ Processed(t) => IssuedNow = {}]_vars

\* the unassign that undoes an Assign entry is in flight
C14_Witness ==
  /\ lastEvt = Evt("undo", "sent")
  /\ \E t \in tasks : /\ t.handler = "undoAssign" /\ t.status = "sent"
                      /\ t.ctx.undone.type = "assign"
                      /\ t.req.date = t.ctx.undone.data.date

\* the hospitals an Unassign replay has still to send, current one first
Pending(t) == <<t.req.hospital>> \o t.ctx.rest
IsSuffix(s, full) ==
  /\ Len(s) <= Len(full)
  /\ s = SubSeq(full, Len(full) - Len(s) + 1, Len(full))

\* C15: undoing an Unassign entry re-assigns the resident hospital by
\* hospital in the order of the entry: the first request at the click, each
\* following one when the answer to the previous one is a success; at the
\* first answer that is not a success nothing further is sent, the cache and
\* the backend keep the re-assignments already made, and the failure is
\* reported.
C15_UnassignReplayInOrder ==
  [][/\ (UndoOf("unassign") /\ Len(Undone.data.hospitals) > 0) =>
          \E t \in IssuedNow :
             /\ IssuedNow = {t}
             /\ t.api = "manual_assign"
             /\ t.req.hospital = Undone.data.hospitals[1]
             /\ t.req.month = Undone.data.month
             /\ t.req.date = Undone.data.date
             /\ t.req.resident = Undone.data.resident
             /\ Pending(t) = Undone.data.hospitals
     /\ \A t \in tasks : (t.handler = "undoUnassign" /\ Processed(t)) =>
          IF t.status = "ok"
          THEN /\ scheduleCache'[t.req.month] = t.result
               /\ IF Len(t.ctx.rest) = 0
                  THEN IssuedNow = {}
                  ELSE \E n \in IssuedNow :
                         /\ IssuedNow = {n}
                         /\ n.api = "manual_assign"
                         /\ Pending(n) = t.ctx.rest
                         /\ n.req.month = t.req.month
                         /\ n.req.date = t.req.date
                         /\ n.req.resident = t.req.resident
          ELSE /\ IssuedNow = {}
               /\ UNCHANGED <<scheduleCache, server, lastChanges>>
               /\ lastEvt' = Evt("undo", t.status)
     /\ \A t \in tasks' : t.handler = "undoUnassign" =>
          IsSuffix(Pending(t), t.ctx.undone.data.hospitals)]_vars

\* a replay of two hospitals stopped at the second: the resident is back in
\* the first hospital of the entry and not in the second
C15_Witness ==
  /\ lastEvt = Evt("undo", "rejected")
  /\ scheduleCache[NowMonth].status = "ok"
  /\ "r1" \in AssignedArr(scheduleCache[NowMonth], "2024-06-01", "Univ")
  /\ "r1" \notin AssignedArr(scheduleCache[NowMonth], "2024-06-01", "General")
  /\ "r1" \in AssignedArr(server[NowMonth], "2024-06-01", "Univ")
  /\ "r1" \notin AssignedArr(server[NowMonth], "2024-06-01", "General")
  /\ \A h \in Hospitals : "r1" \notin AssignedArr(server[NowMonth], "2024-06-04", h)
  /\ Len(lastChanges) = 1 /\ lastChanges[1].type = "assign"
  /\ issued = 2

\* C16: undoing a Move entry sends exactly one request, a move of the same
\* resident in the same month from the entry's destination back to its
\* origin; handling the answer to it sends nothing further.
C16_UndoMoveSendsReverseMove ==
  [][/\ UndoOf("move") =>
          \E t \in IssuedNow :
             /\ IssuedNow = {t}
             /\ t.api = "manual_move"
             /\ t.req.month = Undone.data.month
             /\ t.req.resident = Undone.data.resident
             /\ t.req.from_date = Undone.data.to_date
             /\ t.req.from_hospital = Undone.data.to_hospital
             /\ t.req.to_date = Undone.data.from_date
             /\ t.req.to_hospital = Undone.data.from_hospital
     /\ \A t \in tasks : t.handler = "undoMove" /\ Processed(t) => IssuedNow = {}]_vars

\* the backend accepted the reverse of a move between two different dates
C16_Witness ==
  \E t \in tasks : /\ t.handler = "undoMove" /\ t.status = "ok"
                   /\ t.ctx.undone.type = "move"
                   /\ t.req.to_date = t.ctx.undone.data.from_date
                   /\ t.req.from_date # t.req.to_date

\* C17: a click on undo with a non-empty log takes exactly the last entry off
\* the log; whatever the backend answers (success, rejection, exception) the
\* handling of the answer leaves the log alone, and the log grows only when
\* the answer to a forward operation is handled.
C17_PopIsDestructive ==
  [][/\ (UndoClick /\ Len(lastChanges) > 0) =>
          /\ Len(lastChanges') = Len(lastChanges) - 1
          /\ lastChanges' = SubSeq(lastChanges, 1, Len(lastChanges) - 1)
     /\ \A t \in tasks : (t.handler \in UndoHandlers /\ Processed(t)) =>
          lastChanges' = lastChanges
     /\ Len(lastChanges') > Len(lastChanges) =>
          \E t \in tasks : t.handler \in ForwardHandlers /\ Processed(t)]_vars

\* the only entry of the log was undone, the request threw, the log is empty
C17_Witness ==
  /\ lastEvt = Evt("undo", "error")
  /\ lastChanges = <<>>
  /\ issued = 1 /\ tasks = {}

\* C18: the hospitals recorded for an unassign are the hospitals that hold
\* the resident on that date in the cached schedule when the unassign
\* request is sent.
C18_UnassignEntryMatchesCacheAtSend ==
  [][\A t \in IssuedNow : t.handler = "deleteBtn" =>
        t.ctx.hospitals =
          HospitalsHolding(scheduleCache[t.req.month], t.req.date, t.req.resident)]_vars

\* an unassign request for a resident who holds no hospital on the date
Unheld(t, s) ==
  /\ t.api = "manual_unassign"
  /\ s.status = "ok"
  /\ HospitalsHolding(s, t.req.date, t.req.resident) = <<>>

C20_RemainingFormula ==
  lastEvt.out = "remaining" =>
    LET sched == scheduleCache[editingMonthKey]
        listed == IF sched.status = "ok" /\ lastEvt.date \in DOMAIN sched.assignments
                  THEN Cardinality(sched.assignments[lastEvt.date][lastEvt.hosp])
                  ELSE 0
        bonus == IF /\ lastEvt.hosp = UnivHospital
                    /\ (getDay(lastEvt.date) \in {0, 6} \/ lastEvt.holiday)
                 THEN 4 ELSE 0
    IN  lastEvt.value = capacityOf(currentCfg, lastEvt.hosp, lastEvt.date) + bonus - listed

\* the chooser computed 1 + 4 - 2 for the university hospital on a Tuesday
\* that is a holiday, with two residents listed
C20_Witness ==
  /\ lastEvt.out = "remaining" /\ lastEvt.h = "calDrop"
  /\ lastEvt.hosp = UnivHospital /\ lastEvt.date = "2024-06-04" /\ lastEvt.holiday
  /\ capacityOf(currentCfg, UnivHospital, "2024-06-04") = 1
  /\ Cardinality(AssignedArr(scheduleCache[editingMonthKey], "2024-06-04", UnivHospital)) = 2
  /\ lastEvt.value = 3

\* C21: the capacity of a hospital on a date is the date-specific entry
\* whenever the configuration of the hospital has that key, even when the
\* entry is 0 and the weekday entry is larger; without it the entry of the
\* weekday; without both 0; a hospital the configuration does not name has
\* capacity 0.
C21_DateEntryTakesPrecedence ==
  lastEvt.out = "remaining" =>
    LET hosp == lastEvt.hosp
        d == lastEvt.date
        wk == WeekdayKeys[((getDay(d) + 6) % 7) + 1]
    IN  lastEvt.capacity =
          IF hosp \notin DOMAIN currentCfg THEN 0
          ELSE IF d \in DOMAIN currentCfg[hosp] THEN currentCfg[hosp][d]
          ELSE IF wk \in DOMAIN currentCfg[hosp] THEN currentCfg[hosp][wk]
          ELSE 0

\* the Saturday has the date-specific entry 0 and the weekday entry 2: the
\* dialog computed capacity 0
C21_Witness ==
  /\ lastEvt.out = "remaining" /\ lastEvt.h = "openAssignModal"
  /\ lastEvt.hosp = "General" /\ lastEvt.date = "2024-06-01"
  /\ "General" \in DOMAIN currentCfg
  /\ "2024-06-01" \in DOMAIN currentCfg["General"]
  /\ currentCfg["General"]["2024-06-01"] = 0
  /\ "5" \in DOMAIN currentCfg["General"] /\ currentCfg["General"]["5"] = 2
  /\ lastEvt.capacity = 0

\* Monday-first index of a Sunday-first day index, written out
MondayFirst(n) ==
  CASE n = 0 -> 6 [] n = 1 -> 0 [] n = 2 -> 1 [] n = 3 -> 2
    [] n = 4 -> 3 [] n = 5 -> 4 [] n = 6 -> 5

\* C22: the weekday entry that decides the capacity of a date is the one
\* under (n + 6) mod 7 for the Sunday-first day index n of the date (Monday
\* 0, Tuesday 1, ... Sunday 6); a hospital whose only entry is weekday key 1
\* set to 2 has capacity 2 on every Tuesday.
C22_WeekdayMapping ==
  /\ \A n \in 0 .. 6 : weekdayOf(n) = (n + 6) % 7 /\ weekdayOf(n) = MondayFirst(n)
  /\ lastEvt.out = "remaining" =>
       LET c == currentCfg[lastEvt.hosp]
           key == WeekdayKeys[MondayFirst(getDay(lastEvt.date)) + 1]
       IN  /\ lastEvt.capacity = IF key \in DOMAIN c THEN c[key] ELSE 0
           /\ (getDay(lastEvt.date) = 2 /\ c = ("1" :> 2)) => lastEvt.capacity = 2

\* the second Tuesday, weekday key 1 set to 2, nobody assigned: capacity 2
\* and 2 slots remaining
C22_Witness ==
  /\ lastEvt.out = "remaining"
  /\ lastEvt.hosp = "General" /\ lastEvt.date = "2024-06-11"
  /\ currentCfg["General"] = ("1" :> 2)
  /\ lastEvt.capacity = 2 /\ lastEvt.value = 2

\* hospitals with a free slot on the date or already holding the resident
Offered(s, cfg, d, r, isHoliday) ==
  {h \in SeqToSet(HospitalList(s, cfg)) :
     remaining(s, cfg, h, d, isHoliday) > 0 \/ r \in AssignedArr(s, d, h)}

\* C23: the hospitals the assign dialog offers for (date, resident) are
\* exactly those with remaining > 0 on the date or already holding the
\* resident on it.
C23_DialogOffersFreeOrHeld ==
  [][(assignModal' # None /\ assignModal' # assignModal) =>
        \E isHoliday \in BOOLEAN :
           SeqToSet(assignModal'.candidates) =
             Offered(scheduleCache'[assignModal'.month], currentCfg,
                     assignModal'.date, assignModal'.resident, isHoliday)]_vars

\* C24: a calendar drop that reaches the candidate computation shows a
\* chooser with exactly the hospitals that have remaining > 0 on the target
\* date or already hold the dragged resident there; when there is none it
\* shows no chooser and sends nothing.
C24_ChooserOffersFreeOrHeld ==
  [][/\ lastEvt' = Evt("calDrop", "chooser") =>
          /\ chooser' # None
          /\ chooser'.meta = dataTransfer
          /\ \E isHoliday \in BOOLEAN :
               SeqToSet(chooser'.candidates) =
                 Offered(scheduleCache'[chooser'.monthKey], currentCfg,
                         chooser'.targetDate, dataTransfer.resident, isHoliday)
          /\ chooser'.candidates # <<>>
     /\ lastEvt' = Evt("calDrop", "noSlot") =>
          /\ \E isHoliday \in BOOLEAN, d \in DatesOf(calGrid.month) :
               Offered(scheduleCache'[calGrid.month], currentCfg, d,
                       dataTransfer.resident, isHoliday) = {}
          /\ chooser' = chooser
          /\ IssuedNow = {} /\ tasks' = tasks
     /\ (lastEvt'.h = "calDrop" /\ chooser' # chooser) =>
          lastEvt' = Evt("calDrop", "chooser")]_vars

\* the chooser offers a hospital that is full on the target date because the
\* dragged resident already holds it
C24_Witness ==
  /\ lastEvt = Evt("calDrop", "chooser")
  /\ chooser # None
  /\ \E h \in SeqToSet(chooser.candidates) :
       /\ chooser.meta.resident \in
            AssignedArr(scheduleCache[chooser.monthKey], chooser.targetDate, h)
       /\ \A isHoliday \in BOOLEAN :
            remaining(scheduleCache[chooser.monthKey], currentCfg, h,
                      chooser.targetDate, isHoliday) <= 0

\* a fetch_schedule request goes out only for a month without cache entry,
\* and its answer (or the error sentinel) is stored under that month
FetchWhenAbsentAndStore ==
  /\ \A t \in IssuedNow : t.api = "schedule" => scheduleCache[t.req.month] = Absent
  /\ \A t \in tasks : (t.api = "schedule" /\ Processed(t)) =>
        scheduleCache'[t.req.month] =
          IF t.status = "ok" THEN t.result ELSE ErrorSentinel

\* the success answers whose handling may replace the entry of month m
Overwrites(m, apis) ==
  \E t \in tasks : /\ Processed(t) /\ t.status = "ok"
                   /\ t.req.month = m /\ t.api \in apis

\* C25 as amended: fetchSchedule(month) sends a request only when the cache
\* holds no entry for the month and stores the answer under it; a cached
\* error sentinel stays, and no further request for the month is sent, until
\* the success answer of a mutation or of a fetch_schedule request that was
\* already outstanding replaces it.
C25_SentinelUntilOverwritten ==
  [][/\ FetchWhenAbsentAndStore
     /\ \A m \in Months :
          (scheduleCache[m] = ErrorSentinel /\ scheduleCache'[m] # ErrorSentinel) =>
            Overwrites(m, {"manual_assign", "manual_unassign", "manual_move",
                           "schedule"})]_vars

\* C25 as stated: the cached error sentinel stays until the success answer of
\* a mutation replaces it.
C25_SentinelUntilMutation ==
  [][/\ FetchWhenAbsentAndStore
     /\ \A m \in Months :
          (scheduleCache[m] = ErrorSentinel /\ scheduleCache'[m] # ErrorSentinel) =>
            Overwrites(m, {"manual_assign", "manual_unassign", "manual_move"})]_vars

\* openCalendar found the error sentinel cached: it rendered at once and sent
\* nothing
C25_Witness ==
  /\ lastEvt = Evt("openCalendar", "General")
  /\ scheduleCache[NowMonth] = ErrorSentinel
  /\ tasks = {}
  /\ ~calHidden

\* C26: while two mutation requests for the same month are outstanding, each
\* success answer replaces the cache entry of the month when it is handled,
\* whatever the order of issue, and leaves the other request as it is; so
\* after both the cache holds the answer handled last.
C26_LastResponseWins ==
  [][\A t \in tasks : \A u \in tasks :
       ( /\ t.id # u.id
         /\ IsMutation(t.api) /\ IsMutation(u.api)
         /\ t.req.month = u.req.month
         /\ Processed(t) /\ t.status = "ok" )
       => /\ scheduleCache'[t.req.month] = t.result
          /\ u \in tasks']_vars

\* two overlapping edits were both answered with success and the answer of
\* the earlier one was handled last: the cache is behind the backend
C26_Witness ==
  /\ tasks = {}
  /\ issued = 2
  /\ Len(lastChanges) = 2
  /\ scheduleCache[NowMonth].status = "ok"
  /\ scheduleCache[NowMonth] # server[NowMonth]

\* the resident fetches that selections started and that are not yet handled
SelectionFetches ==
  {t \in tasks : t.handler \in {"labelClick", "showResidentCalendar"}}

\* C27: residentHighlight is one record or null, and whenever no resident
\* fetch started by a selection is outstanding, a highlight that is set names
\* the resident selected last.
C27_HighlightIsLastSelected ==
  (SelectionFetches = {} /\ residentHighlight # None)
    => residentHighlight.name = lastSelected

\* the program's variables other than the drag intent
EngineState ==
  <<currentCfg, editingHospital, editingMonthKey, scheduleCache,
    residentHighlight, residentsCache, lastChanges, calHidden, calGrid,
    previewTable, dataTransfer, assignModal, chooser, tasks, server>>

\* C28: currentDragMeta is set only by a drag-start of the tabular view and
\* cleared only by its drag-end, which always leaves it null; a drop on the
\* table without an intent sends nothing and changes nothing; and the drop
\* handler that resumes after its fetch acts on the intent it captured when
\* the drop happened, whatever currentDragMeta holds by then.
C28_DragIntentLifetime ==
  [][/\ currentDragMeta' # currentDragMeta =>
          \/ lastEvt'.h = "tableDragStart" /\ currentDragMeta' # None
          \/ lastEvt'.h = "tableDragEnd" /\ currentDragMeta' = None
     /\ lastEvt'.h = "tableDragEnd" => currentDragMeta' = None
     /\ (currentDragMeta = None /\ lastEvt'.h = "tableDrop"
           /\ \A t \in tasks \ tasks' : t.handler # "tableDrop") =>
          /\ lastEvt'.out = "noIntent"
          /\ UNCHANGED <<EngineState, currentDragMeta>>
     /\ \A t \in IssuedNow :
          t.handler = "tableDrop" => t.ctx.meta = currentDragMeta /\ t.ctx.meta # None
     /\ \A t \in tasks \ tasks' :
          t.handler = "tableDrop" =>
            /\ lastEvt'.out \in {"ngDay", "dropError"}
            /\ lastEvt'.out = "ngDay" => t.ctx.date \in NgDates[t.ctx.meta.resident]
            /\ (lastEvt'.out = "dropError" /\ residentsCache' # residentsCache)
                 => t.ctx.date \notin NgDates[t.ctx.meta.resident]]_vars

\* the drop of r2 on its NG day was refused after the fetch although r1 was
\* being dragged by then
C28_Witness ==
  /\ lastEvt = TableEvt("ngDay", "2024-06-01", "Univ")
  /\ currentDragMeta # None
  /\ currentDragMeta.resident = "r1"

\* C29: no step of the edit engine (assign, unassign, move, drop validation,
\* candidate computation, undo, or the handling of their answers) changes
\* currentCfg; here only openCalendar of the configuration table writes it.
C29_CfgReadOnly ==
  [][currentCfg' # currentCfg =>
       /\ lastEvt'.h = "openCalendar"
       /\ tasks' \ tasks \subseteq {t \in tasks' : t.api = "schedule"}
       /\ \A t \in tasks : Processed(t) => ~IsMutation(t.api)]_vars

\* the dialog offers the university hospital, computed with the default
\* configuration of a hospital that currentCfg does not hold, and currentCfg
\* still does not hold it
C29_Witness ==
  /\ assignModal # None
  /\ "Univ" \in SeqToSet(assignModal.candidates)
  /\ "Univ" \notin DOMAIN currentCfg

\* the hospitals of the cached schedule, or the configured names when the
\* entry is absent, the error sentinel, or lists none
ListedOrConfigured(s, cfg) ==
  IF s.status = "ok" /\ s.hospitals # <<>> THEN s.hospitals
  ELSE SelectSeq(HospitalSeq, LAMBDA h : h \in DOMAIN cfg)

\* C30: the assign dialog and the drop chooser compute their candidates over
\* the hospitals the cached schedule lists, and over the configured names
\* only when it lists none; when both are empty the assign dialog is not
\* shown and no request is sent.
C30_CandidatesOverListedHospitals ==
  [][/\ (assignModal' # None /\ assignModal' # assignModal) =>
          \E isHoliday \in BOOLEAN :
             assignModal'.candidates =
               SelectSeq(ListedOrConfigured(scheduleCache'[assignModal'.month],
                                            currentCfg),
                         LAMBDA h : remaining(scheduleCache'[assignModal'.month],
                                              currentCfg, h, assignModal'.date,
                                              isHoliday) > 0)
     /\ lastEvt' = Evt("calDrop", "chooser") =>
          \E isHoliday \in BOOLEAN :
             chooser'.candidates =
               SelectSeq(ListedOrConfigured(scheduleCache'[chooser'.monthKey],
                                            currentCfg),
                         LAMBDA h :
                           \/ remaining(scheduleCache'[chooser'.monthKey],
                                        currentCfg, h, chooser'.targetDate,
                                        isHoliday) > 0
                           \/ dataTransfer.resident \in
                                AssignedArr(scheduleCache'[chooser'.monthKey],
                                            chooser'.targetDate, h))
     /\ lastEvt'.h = "openAssignModal" =>
          /\ lastEvt'.out = "noHospitalList"
               <=> ListedOrConfigured(scheduleCache'[calGrid.month], currentCfg) = <<>>
          /\ lastEvt'.out = "noHospitalList" =>
               /\ assignModal' = assignModal
               /\ IssuedNow = {} /\ tasks' = tasks]_vars

\* the dialog was built from the configured names because the cache holds the
\* error sentinel
C30_Witness ==
  /\ lastEvt = Evt("openAssignModal", "shown")
  /\ assignModal # None
  /\ scheduleCache[assignModal.month] = ErrorSentinel
  /\ assignModal.candidates = <<"General">>

C32_FetchKeepsMutationResult ==
  [][\A t \in tasks :
       ( /\ t.api = "schedule" /\ Processed(t)
         /\ lastChanges # <<>>
         /\ Last(lastChanges).data.month = t.req.month )
       => \/ scheduleCache'[t.req.month] = scheduleCache[t.req.month]
          \/ scheduleCache'[t.req.month] = server[t.req.month]]_vars

\* C33: when the success answer of the undo of a move entry is handled, the
\* move having been the last of the forward mutations issued and the log
\* holding exactly the entries pushed before it, the cached assignments of
\* the month are those the cache held before the move, also when the
\* resident already held the destination slot before the move.
C33_MoveUndoRoundTrip ==
  [][\A t \in tasks :
       (/\ Processed(t) /\ t.handler = "undoMove" /\ t.status = "ok"
        /\ t.ctx.undone.type = "move"
        /\ t.ctx.undone.before.status = "ok"
        /\ Len(lastChanges) = issued - 1)
         => scheduleCache'[t.req.month].assignments
              = t.ctx.undone.before.assignments]_vars

\* the cells of the table that are legal drop targets for the resident: the
\* date is no NG date and the slot is free or already held by the resident
LegalTargets(table, sched, cfg, r, isHoliday) ==
  {c \in SeqToSet(table.out.dates) \X SeqToSet(table.out.hospitals) :
     /\ c[1] \notin NgDates[r]
     /\ \/ remaining(sched, cfg, c[2], c[1], isHoliday) > 0
        \/ r \in AssignedArr(sched, c[1], c[2])}

\* C34: when a label click has selected a resident with the residents list
\* at hand, the cells marked as drop targets are the legal ones: every cell
\* that is legal without a holiday is marked, and every marked cell is legal
\* on a holiday at the latest.
C34_MarkedCellsAreLegalTargets ==
  (lastEvt = Evt("labelClick", "selected") /\ previewTable # None)
    => LET sched == scheduleCache[residentHighlight.month]
           r == residentHighlight.name
       IN  /\ LegalTargets(previewTable, sched, currentCfg, r, FALSE)
                \subseteq previewTable.targets
           /\ previewTable.targets
                \subseteq LegalTargets(previewTable, sched, currentCfg, r, TRUE)

\* C35: the hospital names of currentCfg change only when a named hospital's
\* calendar is opened; the save button pressed in a resident's NG view
\* (editingHospital null) leaves currentCfg as it is.
C35_SaveInNgViewKeepsCfg ==
  [][/\ DOMAIN currentCfg' # DOMAIN currentCfg => lastEvt'.h = "openCalendar"
     /\ (lastEvt'.h = "calSave" /\ editingHospital = "null")
          => currentCfg' = currentCfg]_vars

\* C36: capacity editing and resident highlighting exclude each other: in
\* every reachable state editingHospital and residentHighlight are not both
\* set.
C36_EditingExcludesHighlight ==
  ~(editingHospital # "null" /\ residentHighlight # None)

\* C37: a mutation and an undo write only the cache entry of their own
\* month.  The request a handler issues for month m, and the handling of its
\* answer, leave the entries of all other months as they were; the undo of a
\* log entry asks for the entry's month, whatever month the calendar shows.
C37_WritesOwnMonthOnly ==
  [][/\ \A t \in IssuedNow : IsMutation(t.api)
          => \A m \in Months \ {t.req.month} : scheduleCache'[m] = scheduleCache[m]
     /\ \A t \in tasks : (Processed(t) /\ IsMutation(t.api))
          => \A m \in Months \ {t.req.month} : scheduleCache'[m] = scheduleCache[m]
     /\ Len(lastChanges') < Len(lastChanges)
          => /\ \A m \in Months \ {Last(lastChanges).data.month} :
                  scheduleCache'[m] = scheduleCache[m]
             /\ \A t \in IssuedNow : t.req.month = Last(lastChanges).data.month]_vars

\* an undo of a June entry was handled while the calendar showed July, both
\* months cached
C37_Witness ==
  /\ lastEvt = Evt("undo", "undone")
  /\ editingMonthKey = "2024-07"
  /\ previewTable # None /\ previewTable.month = "2024-06"
  /\ scheduleCache["2024-06"] = server["2024-06"]
  /\ scheduleCache["2024-07"] = server["2024-07"]
  /\ scheduleCache["2024-07"].status = "ok"
  /\ tasks = {}

====
